---- MODULE Spec2Model ----
(***************************************************************************)
(* A model of the news scraper: the extraction engine (src/src/scraper.js),*)
(* the pagination engine and crawl loop (src/src/pagination.js) and the    *)
(* one-time runner NewsScheduler.runOnce (second half of scraper.js).      *)
(*                                                                         *)
(* Strings are sequences of one-character strings, so that the code's      *)
(* startsWith / includes / replace / match are computed, not assumed.      *)
(* The comment above a line of such sequences gives them as strings.       *)
(* A document is what the code's selector queries return on it.            *)
(*                                                                         *)
(* Intermediate values are passed to helper operators as arguments rather  *)
(* than named in LET, which keeps the expression tree of Next small.       *)
(***************************************************************************)
EXTENDS Integers, Sequences, FiniteSets, TLC

VARIABLES
    calls,     \* one record per running runOnce call: its locals and position
    exIn,      \* extraction engine exercised alone: the input document
    exOut,     \*   and the value extractArticles returned for it
    pgIn,      \* pagination engine exercised alone: the inputs
    pgOut,     \*   and the values findNextPage / isValidPagination returned
    web,       \* the documents a fetch of the site may return
    sched,     \* NewsScheduler: the job registry, the timers, the last return
    store      \* DataStorage: the accumulated file and the last append

vars == <<calls, exIn, exOut, pgIn, pgOut, web, sched, store>>

\* null / undefined where the code holds a string: a missing attribute, no
\* next page.  No character string equals it.
Null == <<"null">>

\* null where the code holds an article record
NullArticle == [isNull |-> TRUE]

\* the value of exIn, exOut, pgIn, pgOut while the engine is not exercised alone
NoExtraction == [used |-> FALSE]
NoPagination == [used |-> FALSE]
NoScheduler == [used |-> FALSE]
NoStorage == [used |-> FALSE]
NoWeb == [docs |-> {}, record |-> FALSE]

----------------------------------------------------------------------------
(* String primitives                                                       *)

Digits == {"0", "1", "2", "3", "4", "5", "6", "7", "8", "9"}

Lower == {"a", "b", "c", "d", "e", "f", "g", "h", "i", "j", "k", "l", "m",
          "n", "o", "p", "q", "r", "s", "t", "u", "v", "w", "x", "y", "z"}

Whitespace == {" ", "\n"}

MinOf(S) == CHOOSE i \in S : \A j \in S : i <= j
MaxOf(S) == CHOOSE i \in S : \A j \in S : j <= i

\* the least element of a set of positions, or the default when it is empty
MinOr(S, default) == IF S = {} THEN default ELSE MinOf(S)
MaxOr(S, default) == IF S = {} THEN default ELSE MaxOf(S)

\* p occurs in s at position i (1-based)
MatchesAt(s, p, i) ==
    /\ i >= 1
    /\ i + Len(p) - 1 <= Len(s)
    /\ \A k \in 1..Len(p) : s[i + k - 1] = p[k]

\* s.startsWith(p)
StartsWith(s, p) == MatchesAt(s, p, 1)

\* s.endsWith(p), the regular expression /p$/
EndsWith(s, p) == MatchesAt(s, p, Len(s) - Len(p) + 1)

\* s.indexOf(p) + 1: the first position where p occurs, 0 when it does not
IndexOf(s, p) == MinOr({i \in 1..Len(s) : MatchesAt(s, p, i)}, 0)

\* s.includes(p)
Includes(s, p) == Len(p) = 0 \/ IndexOf(s, p) # 0

\* end of the greedy run of digits (\d+) that starts at position i; i - 1 when
\* position i holds no digit
DigitsEnd(s, i) ==
    MaxOr({j \in i..Len(s) : \A k \in i..j : s[k] \in Digits}, i - 1)

\* first match of the regular expression  lit\d+  in s: its position, 0 if none
FindLitDigits(s, lit) ==
    MinOr({i \in 1..Len(s) : /\ MatchesAt(s, lit, i)
                             /\ i + Len(lit) <= Len(s)
                             /\ s[i + Len(lit)] \in Digits}, 0)

\* s with the match of  lit\d+  at position i replaced by repl
ReplaceAt(s, lit, repl, i) ==
    IF i = 0 THEN s
    ELSE SubSeq(s, 1, i - 1) \o repl
            \o SubSeq(s, DigitsEnd(s, i + Len(lit)) + 1, Len(s))

\* s.replace(/lit\d+/, repl): the first match replaced, s itself when none
ReplaceLitDigits(s, lit, repl) == ReplaceAt(s, lit, repl, FindLitDigits(s, lit))

DigitChars == <<"0", "1", "2", "3", "4", "5", "6", "7", "8", "9">>

DigitVal(c) == (CHOOSE k \in 1..10 : DigitChars[k] = c) - 1

DigitChar(d) == DigitChars[d + 1]

\* parseInt of a non-empty run of decimal digits
RECURSIVE DigitsToNat(_)
DigitsToNat(ds) ==
    IF Len(ds) = 0 THEN 0
    ELSE 10 * DigitsToNat(SubSeq(ds, 1, Len(ds) - 1)) + DigitVal(ds[Len(ds)])

\* `${n}` for a natural number n
RECURSIVE NatToDigits(_)
NatToDigits(n) ==
    IF n < 10 THEN <<DigitChar(n)>>
    ELSE NatToDigits(n \div 10) \o <<DigitChar(n % 10)>>

\* the digits captured by the match of  lit(\d+)  at position i
CapturedAt(s, lit, i) == SubSeq(s, i + Len(lit), DigitsEnd(s, i + Len(lit)))

\* parseInt(match[1]) for the first match of  lit(\d+)  in s
CapturedNumber(s, lit) == DigitsToNat(CapturedAt(s, lit, FindLitDigits(s, lit)))

\* text.trim()
RECURSIVE TrimLeft(_)
TrimLeft(s) ==
    IF Len(s) > 0 /\ s[1] \in Whitespace THEN TrimLeft(Tail(s)) ELSE s

RECURSIVE TrimRight(_)
TrimRight(s) ==
    IF Len(s) > 0 /\ s[Len(s)] \in Whitespace
    THEN TrimRight(SubSeq(s, 1, Len(s) - 1)) ELSE s

Trim(s) == TrimRight(TrimLeft(s))

\* the positions of s that start a run of whitespace or hold another
\* character, in order
RunStarts(s) ==
    SelectSeq([i \in 1..Len(s) |-> i],
              LAMBDA i : s[i] \notin Whitespace \/ i = 1 \/ s[i - 1] \notin Whitespace)

CollapsedAt(s, starts) ==
    [k \in 1..Len(starts) |->
        IF s[starts[k]] \in Whitespace THEN " " ELSE s[starts[k]]]

\* text.replace(/\s+/g, ' '): every run of whitespace becomes one space
CollapseSpaces(s) == CollapsedAt(s, RunStarts(s))

\* NewsScraper.cleanText
cleanText(text) ==
    IF Len(text) = 0 THEN <<>> ELSE Trim(CollapseSpaces(text))

UpperChars == <<"A", "B", "C", "D", "E", "F", "G", "H", "I", "J", "K", "L", "M",
                "N", "O", "P", "Q", "R", "S", "T", "U", "V", "W", "X", "Y", "Z">>
LowerChars == <<"a", "b", "c", "d", "e", "f", "g", "h", "i", "j", "k", "l", "m",
                "n", "o", "p", "q", "r", "s", "t", "u", "v", "w", "x", "y", "z">>

LowerOf(c) ==
    IF \E k \in 1..26 : UpperChars[k] = c
    THEN LowerChars[CHOOSE k \in 1..26 : UpperChars[k] = c]
    ELSE c

\* s.toLowerCase()
toLowerCase(s) == [i \in 1..Len(s) |-> LowerOf(s[i])]

----------------------------------------------------------------------------
(* URLs: new URL(input) and new URL(href, base) of the WHATWG URL parser,  *)
(* for the URL shapes the model feeds it: a lower-case scheme, "//" and a   *)
(* host after http: or https:, no port, credentials, fragment or dot        *)
(* segments.  A string outside these shapes fails to parse.                 *)

Colon == <<":">>
Slash == <<"/">>
QMark == <<"?">>
SlashSlash == <<"/", "/">>
\* "http://"
HttpPrefix == <<"h", "t", "t", "p", ":", "/", "/">>
\* "https://"
HttpsPrefix == <<"h", "t", "t", "p", "s", ":", "/", "/">>
\* "http", "https"
SpecialSchemes == {<<"h", "t", "t", "p">>, <<"h", "t", "t", "p", "s">>}

BadUrl == [ok |-> FALSE, scheme |-> <<>>, hostname |-> <<>>, pathname |-> <<>>,
           search |-> <<>>, href |-> <<>>]

\* the position i of the first ":" ends a scheme when only letters precede it
SchemeEndAt(s, i) ==
    IF i > 1 /\ \A k \in 1..(i - 1) : s[k] \in Lower THEN i ELSE 0

\* position of the ":" that ends a scheme, 0 when the string starts with none
SchemeEnd(s) == SchemeEndAt(s, IndexOf(s, Colon))

\* first position at or after i holding one of the characters cs; Len(s) + 1 if none
FirstOf(s, cs, i) == MinOr({j \in i..Len(s) : s[j] \in cs}, Len(s) + 1)

\* the record of a parsed http(s) URL; an empty path is "/", an empty query
\* gives an empty search
MakeUrl(scheme, host, rawPath, rawQuery) ==
    IF host = <<>> THEN BadUrl
    ELSE [ok |-> TRUE, scheme |-> scheme, hostname |-> host,
          pathname |-> IF rawPath = <<>> THEN Slash ELSE rawPath,
          search |-> IF rawQuery = QMark THEN <<>> ELSE rawQuery,
          href |-> scheme \o Colon \o SlashSlash \o host
                     \o (IF rawPath = <<>> THEN Slash ELSE rawPath) \o rawQuery]

\* rest = "//host/path?query": the host ends before hEnd, the path before pEnd
SplitAuthority(scheme, rest, hEnd, pEnd) ==
    MakeUrl(scheme, SubSeq(rest, 3, hEnd - 1), SubSeq(rest, hEnd, pEnd - 1),
            SubSeq(rest, pEnd, Len(rest)))

SplitHost(scheme, rest, hEnd) ==
    SplitAuthority(scheme, rest, hEnd, FirstOf(rest, {"?"}, hEnd))

ParseAfterScheme(s, scheme, rest) ==
    IF scheme \in SpecialSchemes
    THEN IF ~StartsWith(rest, SlashSlash) THEN BadUrl
         ELSE SplitHost(scheme, rest, FirstOf(rest, {"/", "?"}, 3))
    ELSE [ok |-> TRUE, scheme |-> scheme, hostname |-> <<>>,
          pathname |-> rest, search |-> <<>>, href |-> s]

ParseFrom(s, e) ==
    IF e = 0 THEN BadUrl
    ELSE ParseAfterScheme(s, SubSeq(s, 1, e - 1), SubSeq(s, e + 1, Len(s)))

\* new URL(s): the parsed record, BadUrl when the constructor throws
ParseUrl(s) == ParseFrom(s, SchemeEnd(s))

\* the directory of a path: the path up to and including its last "/"
PathDir(path) ==
    SubSeq(path, 1, MaxOr({i \in 1..Len(path) : path[i] = "/"}, 0))

\* the string a relative href stands for, given the parsed base b
RelativeTarget(href, b, origin) ==
    IF StartsWith(href, SlashSlash) THEN b.scheme \o Colon \o href
    ELSE IF StartsWith(href, Slash) THEN origin \o href
    ELSE IF StartsWith(href, QMark) THEN origin \o b.pathname \o href
    ELSE IF href = <<>> THEN origin \o b.pathname \o b.search
    ELSE origin \o PathDir(b.pathname) \o href

ResolveAgainst(href, b) ==
    IF ~b.ok \/ b.hostname = <<>> THEN BadUrl
    ELSE ParseUrl(RelativeTarget(href, b,
                      b.scheme \o Colon \o SlashSlash \o b.hostname))

\* new URL(href, base): the parsed record, BadUrl when the constructor throws
ResolveUrl(href, base) ==
    IF SchemeEnd(href) # 0 THEN ParseUrl(href)
    ELSE ResolveAgainst(href, ParseUrl(base))

\* isValidUrl without its scheme test
isValidUrlAnyScheme(url) == ParseUrl(url).ok

\* NewsScraper.isValidUrl (NewsScheduler.isValidUrl is the same code)
isValidUrl(url) ==
    IF ~ParseUrl(url).ok THEN FALSE
    ELSE StartsWith(url, HttpPrefix) \/ StartsWith(url, HttpsPrefix)


----------------------------------------------------------------------------
(* Documents.  A document is a record [nodes, next, pageLinks].  nodes is   *)
(* the sequence of its top-level subtrees in document order; a node records *)
(* what the code's queries see of one subtree:                              *)
(*   sel     the container selectors of extractArticles its root matches    *)
(*   titles  for each title selector of parseArticle that matches inside    *)
(*           it, in selector order, the text of the first match             *)
(*   els     its descendants that are <a href>, carry an href attribute or  *)
(*           are <link> elements, in document order:                        *)
(*           [tag, href (Null: no such attribute), text, cls]               *)
(* A bare anchor of the page is a node with sel = {} and one element.       *)
(* next and pageLinks are what findNextPage's queries return:               *)
(*   next       for each of its six next-link selectors, in order, the href *)
(*              attributes (Null: none) of the elements the selector matches*)
(*   pageLinks  the anchors inside pagination / paging containers, in       *)
(*              document order: [href (Null: none), text]                   *)

\* The container selectors, in the order of the code's list.
selectors ==
    <<"article", "[class*=article]", "[class*=news]", "[class*=post]",
      "[id*=article]", "[id*=news]", "[id*=post]",
      ".news-item", ".story", ".entry", ".card", ".item",
      "article.article", "article.post", "article.story">>

\* The length limits of extractFromLinks and its cap on the harvested list.
MinLinkText == 15
MaxLinkText == 200
MaxLinkArticles == 50

\* The length a description must exceed, and the length it is cut to.
MinDescription == 20
MaxDescription == 500

\* "nav", "menu", "footer", "header", "sidebar", "comment"
skipClasses == {<<"n", "a", "v">>, <<"m", "e", "n", "u">>, <<"f", "o", "o", "t", "e", "r">>, <<"h", "e", "a", "d", "e", "r">>, <<"s", "i", "d", "e", "b", "a", "r">>, <<"c", "o", "m", "m", "e", "n", "t">>}

\* "/category/", "/tag/", "/author/", "/page/"
skipPatterns == {<<"/", "c", "a", "t", "e", "g", "o", "r", "y", "/">>, <<"/", "t", "a", "g", "/">>, <<"/", "a", "u", "t", "h", "o", "r", "/">>, <<"/", "p", "a", "g", "e", "/">>}

\* ".pdf", ".jpg", ".png", ".gif"
skipExtensions == {<<".", "p", "d", "f">>, <<".", "j", "p", "g">>, <<".", "p", "n", "g">>, <<".", "g", "i", "f">>}

articlePatterns ==
    \* "/news/", "/article/", "/story/", "/post/", "-article-", "-news-"
    {<<"/", "n", "e", "w", "s", "/">>, <<"/", "a", "r", "t", "i", "c", "l", "e", "/">>, <<"/", "s", "t", "o", "r", "y", "/">>, <<"/", "p", "o", "s", "t", "/">>, <<"-", "a", "r", "t", "i", "c", "l", "e", "-">>, <<"-", "n", "e", "w", "s", "-">>}

\* /\/\d{4}\/\d{2}\//.test(s)
HasDateSegment(s) ==
    \E i \in 1..Len(s) :
        /\ i + 8 <= Len(s)
        /\ s[i] = "/" /\ s[i + 5] = "/" /\ s[i + 8] = "/"
        /\ \A k \in {1, 2, 3, 4, 6, 7} : s[i + k] \in Digits

\* url.split('/').length
SplitSlashLength(s) == Cardinality({i \in 1..Len(s) : s[i] = "/"}) + 1

LooksLikeArticle(urlLower) ==
    IF \/ \E pat \in skipPatterns : Includes(urlLower, pat)
       \/ \E ext \in skipExtensions : EndsWith(urlLower, ext)
    THEN FALSE
    ELSE \/ \E pat \in articlePatterns : Includes(urlLower, pat)
         \/ HasDateSegment(urlLower)
         \/ SplitSlashLength(urlLower) >= 4

\* NewsScraper.looksLikeArticleUrl
looksLikeArticleUrl(url) == LooksLikeArticle(toLowerCase(url))

----------------------------------------------------------------------------
(* The extraction engine                                                   *)

\* .first(): the first element of a selection, as a sequence of 0 or 1
First(els) == IF Len(els) = 0 THEN <<>> ELSE <<els[1]>>

FirstWhere(els, Test(_)) == First(SelectSeq(els, Test))

\* the elements of a node that  $article.find(selector).first()  returns for
\* the link selectors 'a[href]', '[href]', 'link', in that order, skipping
\* the selectors that match nothing
LinkElements(node) ==
    FirstWhere(node.els, LAMBDA e : e.tag = "a" /\ e.href # Null)
        \o FirstWhere(node.els, LAMBDA e : e.href # Null)
        \o FirstWhere(node.els, LAMBDA e : e.tag = "link")

\* linkEl.attr('href') || ''
HrefOrEmpty(e) == IF e.href = Null THEN <<>> ELSE e.href

\* the title loop of parseArticle: the trimmed text of the first title
\* element whose trimmed text is not empty; title keeps the last text tried
RECURSIVE FindTitle(_, _)
TitleStep(titles, t) == IF t # <<>> THEN t ELSE FindTitle(Tail(titles), t)

FindTitle(titles, title) ==
    IF Len(titles) = 0 THEN title ELSE TitleStep(titles, Trim(Head(titles)))

\* the link loop of parseArticle: url is overwritten by every element tried;
\* it is resolved against the base and the loop left at the first href that
\* resolves, and keeps the raw href when the resolution throws
RECURSIVE FindLink(_, _, _)
LinkStep(linkEls, baseUrl, raw, r) ==
    IF raw # <<>> /\ r.ok THEN r.href ELSE FindLink(Tail(linkEls), baseUrl, raw)

LinkTry(linkEls, baseUrl, raw) ==
    LinkStep(linkEls, baseUrl, raw, ResolveUrl(raw, baseUrl))

FindLink(linkEls, baseUrl, url) ==
    IF Len(linkEls) = 0 THEN url
    ELSE LinkTry(linkEls, baseUrl, HrefOrEmpty(Head(linkEls)))

\* "Return article object if we have at least title and URL"
HasTitleAndUrl(title, url) == title # <<>> /\ url # <<>> /\ isValidUrl(url)

\* description.substring(0, 500)
Substring(s, n) == IF Len(s) <= n THEN s ELSE SubSeq(s, 1, n)

\* the description loop of parseArticle over the first matches of the
\* descSelectors ('p', the excerpt, summary and description classes,
\* '.entry-summary'; null where a selector matches nothing): description is
\* overwritten by the trimmed text of every element tried, and the loop is
\* left at the first text longer than MinDescription, cut to MaxDescription
RECURSIVE FindDescription(_, _)
DescriptionStep(descs, d) ==
    IF d # <<>> /\ Len(d) > MinDescription THEN Substring(d, MaxDescription)
    ELSE FindDescription(Tail(descs), d)

FindDescription(descs, description) ==
    IF Len(descs) = 0 THEN description
    ELSE IF Head(descs) = Null THEN FindDescription(Tail(descs), description)
    ELSE DescriptionStep(descs, Trim(Head(descs)))

MakeArticle(title, url, description) ==
    IF HasTitleAndUrl(title, url)
    THEN [title |-> cleanText(title), url |-> url,
          description |-> cleanText(description)]
    ELSE NullArticle

\* a || b for strings, null and undefined: the empty string, null and
\* undefined are falsy
JsOr(a, b) == IF a # Null /\ a # <<>> THEN a ELSE b

\* a || b for Cheerio selections: a selection is an object, and an object is
\* truthy also when it holds no element, so that b is not evaluated
SelectionOr(a, b) == a

\* dateEl.attr('datetime') || dateEl.text().trim() || ''
DateOf(dateEl) ==
    IF dateEl.length = 0 THEN <<>>
    ELSE JsOr(JsOr(dateEl.datetime, Trim(dateEl.text)), <<>>)

\* "Try to find date"
FindDate(dates) == DateOf(SelectionOr(SelectionOr(dates[1], dates[2]), dates[3]))

\* authorEl.text().trim() || ''
AuthorOf(authorEl) ==
    IF authorEl.length = 0 THEN <<>> ELSE JsOr(Trim(authorEl.text), <<>>)

\* "Try to find author"
FindAuthor(authors) == AuthorOf(SelectionOr(authors[1], authors[2]))

\* the record with its date and author
WithDateAuthor(article, date, author) ==
    IF article = NullArticle THEN NullArticle
    ELSE [title |-> article.title, url |-> article.url,
          description |-> article.description, date |-> date, author |-> author]

\* NewsScraper.parseArticle: the record, or null
parseArticle(node, baseUrl) ==
    WithDateAuthor(MakeArticle(FindTitle(node.titles, <<>>),
                               FindLink(LinkElements(node), baseUrl, <<>>),
                               FindDescription(node.descs, <<>>)),
                   FindDate(node.dates), FindAuthor(node.authors))

\* "Skip if not enough text or looks like navigation"
SkipLinkText(text) ==
    text = <<>> \/ Len(text) < MinLinkText \/ Len(text) > MaxLinkText

ClassSkipped(className) == \E skip \in skipClasses : Includes(className, skip)

SkipLinkClass(cls) == ClassSkipped(toLowerCase(cls))

\* $('a[href]') on the whole document, in document order
RECURSIVE AllAnchors(_)
AllAnchors(nodes) ==
    IF Len(nodes) = 0 THEN <<>>
    ELSE SelectSeq(Head(nodes).els, LAMBDA e : e.tag = "a" /\ e.href # Null)
            \o AllAnchors(Tail(nodes))

\* the body of the .each callback of extractFromLinks for one anchor: the
\* record pushed, as a sequence of 0 or 1
HarvestOne(text, cls, r) ==
    IF /\ ~SkipLinkText(text)
       /\ ~SkipLinkClass(cls)
       /\ r.ok
       /\ isValidUrl(r.href)
       /\ looksLikeArticleUrl(r.href)
    THEN <<[title |-> cleanText(text), url |-> r.href, description |-> <<>>,
            date |-> <<>>, author |-> <<>>]>>
    ELSE <<>>

HarvestAnchor(a, baseUrl) ==
    HarvestOne(Trim(a.text), a.cls, ResolveUrl(a.href, baseUrl))

RECURSIVE HarvestLinks(_, _)
HarvestLinks(anchors, baseUrl) ==
    IF Len(anchors) = 0 THEN <<>>
    ELSE HarvestAnchor(Head(anchors), baseUrl)
            \o HarvestLinks(Tail(anchors), baseUrl)

\* articles.slice(0, n)
SliceTo(articles, n) ==
    SubSeq(articles, 1, IF Len(articles) < n THEN Len(articles) ELSE n)

\* NewsScraper.extractFromLinks
extractFromLinks(doc, baseUrl) ==
    SliceTo(HarvestLinks(AllAnchors(doc.nodes), baseUrl), MaxLinkArticles)

\* $(selector): the nodes whose root matches, in document order
Matching(doc, selector) == SelectSeq(doc.nodes, LAMBDA n : selector \in n.sel)

\* the test of the .each callback of extractArticles:
\* "Only add valid articles with unique URLs"
IsAccepted(article, seenUrls) ==
    /\ article # NullArticle
    /\ article.title # <<>>
    /\ article.url # <<>>
    /\ article.url \notin seenUrls

AddArticle(st, article) ==
    IF IsAccepted(article, st.seenUrls)
    THEN [articles |-> Append(st.articles, article),
          seenUrls |-> st.seenUrls \cup {article.url}]
    ELSE st

\* elements.each(...): [articles, seenUrls] after the callback has run on
\* every element
RECURSIVE AddArticles(_, _, _)
AddArticles(elements, baseUrl, st) ==
    IF Len(elements) = 0 THEN st
    ELSE AddArticles(Tail(elements), baseUrl,
                     AddArticle(st, parseArticle(Head(elements), baseUrl)))

\* FoundArticles with the break left out
FoundArticlesNever(articles) == FALSE

\* "If we found articles, don't try more selectors"
FoundArticles(articles) == Len(articles) > 0

\* the selector loop of extractArticles, from the i-th selector on
RECURSIVE TrySelectors(_, _, _, _)
AfterSelector(doc, baseUrl, i, st) ==
    IF FoundArticles(st.articles) THEN st
    ELSE TrySelectors(doc, baseUrl, i + 1, st)

TrySelectors(doc, baseUrl, i, st) ==
    IF i > Len(selectors) THEN st
    ELSE AfterSelector(doc, baseUrl, i,
                       AddArticles(Matching(doc, selectors[i]), baseUrl, st))

\* "If no articles found with container selectors, try link-based approach"
WithLinkFallback(articles, doc, baseUrl) ==
    IF Len(articles) = 0
    THEN articles \o extractFromLinks(doc, baseUrl)
    ELSE articles

\* NewsScraper.extractArticles
extractArticles(doc, baseUrl) ==
    WithLinkFallback(
        TrySelectors(doc, baseUrl, 1, [articles |-> <<>>, seenUrls |-> {}]).articles,
        doc, baseUrl)


----------------------------------------------------------------------------
(* The pagination engine                                                   *)

\* "/page/"
SlashPage == <<"/", "p", "a", "g", "e", "/">>
\* "?page="
QPage == <<"?", "p", "a", "g", "e", "=">>
\* "&page="
AmpPage == <<"&", "p", "a", "g", "e", "=">>
\* "/p/"
SlashP == <<"/", "p", "/">>
\* "page"
PageWord == <<"p", "a", "g", "e">>
\* "javascript:"
JavascriptColon == <<"j", "a", "v", "a", "s", "c", "r", "i", "p", "t", ":">>

\* the patterns of extractPageNumber, without their (\d+)
pagePatterns == <<SlashPage, QPage, AmpPage, SlashP>>

RECURSIVE PageNumberFrom(_, _)
PageNumberFrom(url, i) ==
    IF i > Len(pagePatterns) THEN 1
    ELSE IF FindLitDigits(url, pagePatterns[i]) # 0
         THEN CapturedNumber(url, pagePatterns[i])
         ELSE PageNumberFrom(url, i + 1)

\* PaginationHandler.extractPageNumber
extractPageNumber(url) == PageNumberFrom(url, 1)

\* DomainRejected with the host check left out
DomainRejectedNever(current, next, options) == FALSE

\* "Check same domain if required"
DomainRejected(current, next, options) ==
    options.sameDomainOnly /\ current.hostname # next.hostname

\* SameUrl with the loop guard left out
SameUrlNever(currentUrl, nextUrl) == FALSE

\* "Check if it's actually different"
SameUrl(currentUrl, nextUrl) == currentUrl = nextUrl

\* currentPath.replace(/\/page\/\d+/, '').replace(/\/p\/\d+/, '')
BasePath(currentPath) ==
    ReplaceLitDigits(ReplaceLitDigits(currentPath, SlashPage, <<>>), SlashP, <<>>)

\* LooksLikePagination without the test of the query string
LooksLikePaginationByPath(basePath, next) ==
    \/ StartsWith(next.pathname, basePath)
    \/ Includes(next.pathname, PageWord)

\* "Check if it looks like pagination"
LooksLikePagination(basePath, next) ==
    \/ StartsWith(next.pathname, basePath)
    \/ Includes(next.pathname, PageWord)
    \/ Includes(next.search, PageWord)

\* isValidPagination once both URLs are parsed; a URL that does not parse
\* makes the constructor throw, and the catch returns false
ValidParsed(currentUrl, nextUrl, current, next, options) ==
    IF ~current.ok \/ ~next.ok THEN FALSE
    ELSE IF DomainRejected(current, next, options) THEN FALSE
    ELSE IF SameUrl(currentUrl, nextUrl) THEN FALSE
    ELSE LooksLikePagination(BasePath(current.pathname), next)

\* PaginationHandler.isValidPagination
isValidPagination(currentUrl, nextUrl, options) ==
    ValidParsed(currentUrl, nextUrl, ParseUrl(currentUrl), ParseUrl(nextUrl),
                options)

\* $link.attr('href'): the attribute of the first element of the selection
FirstHref(hrefs) == IF Len(hrefs) = 0 THEN Null ELSE hrefs[1]

\* the href of a next link is used unless it is missing, empty or javascript:
UsableHref(href) ==
    href # Null /\ href # <<>> /\ ~Includes(href, JavascriptColon)

\* Strategy 1 of findNextPage, from the i-th next-link selector on: the href
\* of the first element a selector matches, resolved against the current URL
RECURSIVE NextLinkFrom(_, _, _)
NextLinkStep(next, currentUrl, i, href, r) ==
    IF UsableHref(href) /\ r.ok THEN r.href
    ELSE NextLinkFrom(next, currentUrl, i + 1)

NextLinkTry(next, currentUrl, i, href) ==
    NextLinkStep(next, currentUrl, i, href,
                 IF UsableHref(href) THEN ResolveUrl(href, currentUrl) ELSE BadUrl)

NextLinkFrom(next, currentUrl, i) ==
    IF i > Len(next) THEN Null
    ELSE NextLinkTry(next, currentUrl, i, FirstHref(next[i]))

\* isNaN(text) for the link texts of the model: the empty string and a run
\* of decimal digits are numbers, every other text is not
isNaN(text) == ~(\A k \in 1..Len(text) : text[k] \in Digits)

\* parseInt(text) for the same texts: [nan, n]; parseInt('') is NaN
parseInt(text) ==
    IF Len(text) = 0 \/ isNaN(text) THEN [nan |-> TRUE, n |-> 0]
    ELSE [nan |-> FALSE, n |-> DigitsToNat(text)]

\* the body of the .each callback of strategy 2 for one anchor: the entry
\* pushed to pageLinks, as a sequence of 0 or 1
PageLinkEntry(href, text, r) ==
    IF href # Null /\ href # <<>> /\ ~isNaN(text) /\ r.ok
    THEN <<[url |-> r.href, page |-> parseInt(text)]>>
    ELSE <<>>

PageLinkOf(el, currentUrl) ==
    PageLinkEntry(el.href, Trim(el.text),
                  IF el.href = Null THEN BadUrl
                  ELSE ResolveUrl(el.href, currentUrl))

RECURSIVE CollectPageLinks(_, _)
CollectPageLinks(els, currentUrl) ==
    IF Len(els) = 0 THEN <<>>
    ELSE PageLinkOf(Head(els), currentUrl)
            \o CollectPageLinks(Tail(els), currentUrl)

\* l.page > currentPageNum; a comparison with NaN is false
IsLaterPage(l, currentPageNum) == ~l.page.nan /\ l.page.n > currentPageNum

\* SortedFirst with the sort left out: the first link in document order
SortedFirstUnsorted(links) == links[1]

\* .sort((a, b) => a.page - b.page)[0] of a non-empty array: the sort is
\* stable, so among equal page numbers the first in document order wins
SortedFirst(links) ==
    links[MinOf({i \in 1..Len(links) :
                    \A j \in 1..Len(links) : links[i].page.n <= links[j].page.n})]

\* sortedLinks.length > 0 ? sortedLinks[0].url : (nextPageUrl stays null)
FirstLinkUrl(later) == IF Len(later) = 0 THEN Null ELSE SortedFirst(later).url

\* "Find the next page number"
FirstSortedLink(pageLinks, currentPageNum) ==
    FirstLinkUrl(SelectSeq(pageLinks, LAMBDA l : IsLaterPage(l, currentPageNum)))

\* Strategy 2 of findNextPage
NumberedNext(doc, currentUrl) ==
    FirstSortedLink(CollectPageLinks(doc.pageLinks, currentUrl),
                    extractPageNumber(currentUrl))

\* url.replace(/\/$/, '')
StripTrailingSlash(url) ==
    IF Len(url) > 0 /\ url[Len(url)] = "/" THEN SubSeq(url, 1, Len(url) - 1)
    ELSE url

\* the patterns array of strategy 3, n being `${nextPageNum}`
PatternsFor(currentUrl, n) ==
    <<ReplaceLitDigits(currentUrl, SlashPage, SlashPage \o n),
      ReplaceLitDigits(currentUrl, QPage, QPage \o n),
      ReplaceLitDigits(currentUrl, AmpPage, AmpPage \o n),
      ReplaceLitDigits(currentUrl, SlashP, SlashP \o n),
      StripTrailingSlash(currentUrl) \o SlashPage \o n,
      currentUrl \o QPage \o n>>

UrlPatterns(currentUrl) ==
    PatternsFor(currentUrl, NatToDigits(extractPageNumber(currentUrl) + 1))

\* the first pattern that differs from the current URL, null when none does
FirstDiffering(patterns, currentUrl) ==
    IF \A i \in 1..Len(patterns) : patterns[i] = currentUrl THEN Null
    ELSE patterns[MinOf({i \in 1..Len(patterns) : patterns[i] # currentUrl})]

\* SynthesizedNext with strategy 3 left out
SynthesizedNever(currentUrl) == Null

\* Strategy 3 of findNextPage
SynthesizedNext(currentUrl) == FirstDiffering(UrlPatterns(currentUrl), currentUrl)

\* OrElseNumbered with the strategies in the other order: a numbered link
\* wins over an explicit next link
NumberedFirst(nextPageUrl, doc, currentUrl) ==
    IF NumberedNext(doc, currentUrl) = Null THEN nextPageUrl
    ELSE NumberedNext(doc, currentUrl)

\* if (!nextPageUrl) { next strategy }
OrElseNumbered(nextPageUrl, doc, currentUrl) ==
    IF nextPageUrl = Null THEN NumberedNext(doc, currentUrl) ELSE nextPageUrl

OrElseSynthesized(nextPageUrl, currentUrl) ==
    IF nextPageUrl = Null THEN SynthesizedNext(currentUrl) ELSE nextPageUrl

\* PaginationHandler.findNextPage once its fetch has returned the document
findNextPage(doc, currentUrl) ==
    OrElseSynthesized(
        OrElseNumbered(NextLinkFrom(doc.next, currentUrl, 1), doc, currentUrl),
        currentUrl)


----------------------------------------------------------------------------
(* The inputs: URLs, texts, nodes and documents                            *)

\* a text of n characters
TextOf(n) == [i \in 1..n |-> "x"]

\* "https://a.com/news"
U_News == <<"h", "t", "t", "p", "s", ":", "/", "/", "a", ".", "c", "o", "m", "/", "n", "e", "w", "s">>
\* "https://a.com/news/page/2"
U_NewsPage2 == <<"h", "t", "t", "p", "s", ":", "/", "/", "a", ".", "c", "o", "m", "/", "n", "e", "w", "s", "/", "p", "a", "g", "e", "/", "2">>
\* "https://b.com/news/page/2"
U_Other == <<"h", "t", "t", "p", "s", ":", "/", "/", "b", ".", "c", "o", "m", "/", "n", "e", "w", "s", "/", "p", "a", "g", "e", "/", "2">>

\* "/news/a1"
H_A1 == <<"/", "n", "e", "w", "s", "/", "a", "1">>
\* "/news/a2"
H_A2 == <<"/", "n", "e", "w", "s", "/", "a", "2">>
\* "/news/a3"
H_A3 == <<"/", "n", "e", "w", "s", "/", "a", "3">>
\* "/news/page/2"
H_Page2 == <<"/", "n", "e", "w", "s", "/", "p", "a", "g", "e", "/", "2">>
\* "/news/page/3"
H_Page3 == <<"/", "n", "e", "w", "s", "/", "p", "a", "g", "e", "/", "3">>
\* "/news/page/5"
H_Page5 == <<"/", "n", "e", "w", "s", "/", "p", "a", "g", "e", "/", "5">>
\* "mailto:x"
H_Mail == <<"m", "a", "i", "l", "t", "o", ":", "x">>
\* "/about"
H_About == <<"/", "a", "b", "o", "u", "t">>
\* "/news/a1.pdf"
H_Pdf == <<"/", "n", "e", "w", "s", "/", "a", "1", ".", "p", "d", "f">>
\* "https://"
H_Bad == <<"h", "t", "t", "p", "s", ":", "/", "/">>
\* "javascript:go()"
H_Js == <<"j", "a", "v", "a", "s", "c", "r", "i", "p", "t", ":", "g", "o", "(", ")">>

Anchor(href, text, cls) == [tag |-> "a", href |-> href, text |-> text, cls |-> cls]

\* no element of the node matches a description selector
NoDescs == <<Null, Null, Null, Null, Null>>

\* a selection: .first() of what a selector found, with what is read of its
\* element; length 0 when the selector found nothing
NoElement == [length |-> 0]
Element(datetime, text) == [length |-> 1, datetime |-> datetime, text |-> text]

\* dates[k] is the selection of 'time', '[datetime]', '[class*="date"]';
\* authors[k] the selection of '[class*="author"]', '[rel*="author"]'
NoDates == <<NoElement, NoElement, NoElement>>
NoAuthors == <<NoElement, NoElement>>

\* <article><h2>title</h2><a href=href>read</a></article> and the like
Container(sel, title, href) ==
    \* "read"
    [sel |-> sel, titles |-> <<title>>, els |-> <<Anchor(href, <<"r", "e", "a", "d">>, <<>>)>>,
     descs |-> NoDescs, dates |-> NoDates, authors |-> NoAuthors]

\* the same with <p>, excerpt, summary, description and .entry-summary
\* elements: descs[k] is the text of the first match of the k-th selector
Described(sel, title, href, descs) ==
    [Container(sel, title, href) EXCEPT !.descs = descs]

\* the same with date and author elements
Signed(sel, title, href, dates, authors) ==
    [Container(sel, title, href) EXCEPT !.dates = dates, !.authors = authors]

\* an anchor of the page outside every container
BareAnchor(href, text, cls) ==
    [sel |-> {}, titles |-> <<>>, els |-> <<Anchor(href, text, cls)>>,
     descs |-> NoDescs, dates |-> NoDates, authors |-> NoAuthors]

NoNext == <<<<>>, <<>>, <<>>, <<>>, <<>>, <<>>>>

\* the first next-link selector (a.next) matches one element with this href
NextLink(href) == <<<<href>>, <<>>, <<>>, <<>>, <<>>, <<>>>>

PageLink(href, text) == [href |-> href, text |-> text]

Doc(nodes, next, pageLinks) ==
    [nodes |-> nodes, next |-> next, pageLinks |-> pageLinks]

\* The documents a fetch of the crawl may return.
\*   DocFirst    two articles and an explicit next link to page 2
\*   DocSecond   an article seen before and a new one; numbered links 5, 3
\*   DocLinks    no container: the same link twice; next link to the start
\*   DocOffSite  nothing to extract; next link to another host
\*   DocPlain    one article, no pagination at all
DocFirst ==
    \* "Title 1"
    Doc(<<Container({"article"}, <<"T", "i", "t", "l", "e", " ", "1">>, H_A1),
          \* "Title 2"
          Container({"article"}, <<"T", "i", "t", "l", "e", " ", "2">>, H_A2)>>,
        NextLink(H_Page2), <<>>)

DocSecond ==
    \* "Title 2"
    Doc(<<Container({"article"}, <<"T", "i", "t", "l", "e", " ", "2">>, H_A2),
          \* "Title 3"
          Container({"article"}, <<"T", "i", "t", "l", "e", " ", "3">>, H_A3)>>,
        NoNext, <<PageLink(H_Page5, <<"5">>), PageLink(H_Page3, <<"3">>)>>)

DocLinks ==
    Doc(<<BareAnchor(H_A3, TextOf(MinLinkText), <<>>),
          BareAnchor(H_A3, TextOf(MinLinkText + 1), <<>>)>>,
        NextLink(U_News), <<>>)

DocOffSite == Doc(<<>>, NextLink(U_Other), <<>>)

\* "Title 1"
DocPlain == Doc(<<Container({".item"}, <<"T", "i", "t", "l", "e", " ", "1">>, H_A1)>>, NoNext, <<>>)

CrawlDocs == {DocFirst, DocSecond, DocLinks, DocOffSite, DocPlain}

\* The largest page limit a call is given.
MaxPagesBound == 3

StartUrls == {U_News}


----------------------------------------------------------------------------
(* The crawl: NewsScheduler.runOnce and PaginationHandler.scrapeMultiplePages*)
(*                                                                          *)
(* calls[c] holds the locals of one runOnce call and of the crawl it runs.  *)
(* A step is the code between two awaits.  pc names the await the call is   *)
(* suspended at:                                                            *)
(*   "start"         runOnce has been called and has not run yet            *)
(*   "scrapeNews"    axios.get of scrapeWithCheerio, called by scrapeNews   *)
(*   "scrapePage"    axios.get of scrapeWithCheerio, called by scrapePage   *)
(*   "findNextPage"  axios.get of findNextPage                              *)
(*   "delay"         the timer of delay(opts.delayBetweenPages)             *)
(*   "saving"        the write of saveToJson / saveToCsv / saveToBoth       *)
(*   "done"          runOnce has returned: result is its return value       *)
(* History fields, written and never read by the steps:                     *)
(*   failed       the fetches that failed so far: <<kind, page>>, kind being*)
(*                "scrape" (scrapeWithCheerio) or "next" (findNextPage)     *)
(*   visited      the page URLs scrapePage was called with, in order        *)
(*   discovered   the page results of scrapePage so far, concatenated       *)
(*   endedBy      why the while loop was left                               *)
(*   pending      the fetches issued and not yet awaited: <<kind, page>>    *)
(*   fetches      the number of axios.get calls issued so far               *)
(*   extracted    the number of pages whose scrapePage has returned         *)
(*   searched     the number of pages whose findNextPage has returned       *)

\* this.options of PaginationHandler
handlerOptions ==
    [maxPages |-> 5, delayBetweenPages |-> 1000, sameDomainOnly |-> TRUE]

\* opts = { ...this.options, ...options } with options = { maxPages }
MergeOptions(defaults, maxPages) == [defaults EXCEPT !.maxPages = maxPages]

\* the outcome of one axios.get: a failure, or any document of the pool
FetchOutcomes(docs) ==
    {[ok |-> FALSE]} \cup {[ok |-> TRUE, doc |-> d] : d \in docs}


\* The URLs a crawl is mostly at.  What the engines compute on a document of
\* the pool at one of these URLs is tabulated, so that it is computed once;
\* at any other URL it is computed in place.
CrawlPages ==
    StartUrls \cup {U_News \o SlashPage \o NatToDigits(k) : k \in 2..(MaxPagesBound + 2)}

ExtractTable ==
    [doc \in CrawlDocs, url \in CrawlPages |-> extractArticles(doc, url)]

ExtractedFrom(doc, url) ==
    IF doc \in CrawlDocs /\ url \in CrawlPages THEN ExtractTable[doc, url]
    ELSE extractArticles(doc, url)

NextPageTable ==
    [doc \in CrawlDocs, url \in CrawlPages |-> findNextPage(doc, url)]

NextPageFrom(doc, url) ==
    IF doc \in CrawlDocs /\ url \in CrawlPages THEN NextPageTable[doc, url]
    ELSE findNextPage(doc, url)

FetchableTable == [url \in CrawlPages |-> isValidUrl(url)]

\* the URL is one a request can be sent to: an http(s) URL
Fetchable(url) ==
    IF url \in CrawlPages THEN FetchableTable[url] ELSE isValidUrl(url)

\* the outcomes of axios.get(url): a request for something that is no
\* http(s) URL gets no document
Responses(site, url) ==
    IF Fetchable(url) THEN FetchOutcomes(site.docs) ELSE {[ok |-> FALSE]}

\* NewsScraper.scrapeWithCheerio once its fetch has ended: the catch turns
\* a failed fetch into the empty list
scrapeWithCheerio(outcome, url) ==
    IF outcome.ok THEN ExtractedFrom(outcome.doc, url) ELSE <<>>

\* NewsScraper.scrapeNews
scrapeNews(outcome, url) == scrapeWithCheerio(outcome, url)

\* PaginationHandler.scrapePage
scrapePage(outcome, url) == scrapeWithCheerio(outcome, url)

\* IsNewArticle with the seen-set test left out
IsNewArticleAlways(seenUrls, article) == TRUE

\* "Add new articles (avoiding duplicates)": the test of the for loop
IsNewArticle(seenUrls, article) == article.url \notin seenUrls

\* the for loop over pageArticles: [allArticles, seenUrls] after it
RECURSIVE MergePage(_, _, _)
MergeOne(rest, article, allArticles, seenUrls) ==
    IF IsNewArticle(seenUrls, article)
    THEN MergePage(rest, Append(allArticles, article), seenUrls \cup {article.url})
    ELSE MergePage(rest, allArticles, seenUrls)

MergePage(pageArticles, allArticles, seenUrls) ==
    IF Len(pageArticles) = 0
    THEN [allArticles |-> allArticles, seenUrls |-> seenUrls]
    ELSE MergeOne(Tail(pageArticles), Head(pageArticles), allArticles, seenUrls)

\* LoopContinues with the page limit off by one
LoopContinuesOffByOne(currentPageUrl, pageCount, maxPages) ==
    currentPageUrl # Null /\ currentPageUrl # <<>> /\ pageCount <= maxPages

\* the condition of the while loop
LoopContinues(currentPageUrl, pageCount, maxPages) ==
    currentPageUrl # Null /\ currentPageUrl # <<>> /\ pageCount < maxPages

\* LoopResult with a rejected candidate treated as an error that drops the
\* accumulated list
LoopResultEmptyOnReject(allArticles, endedBy) ==
    IF endedBy = "rejected" THEN <<>> ELSE allArticles

\* what scrapeMultiplePages returns when its loop has been left
LoopResult(allArticles, endedBy) == allArticles

\* what runOnce returns
Success(articles) ==
    [success |-> TRUE, count |-> Len(articles), articles |-> articles]

Failure == [success |-> FALSE]

NotReturned == [pending |-> TRUE]

\* the task of a scheduled job returns nothing, whatever happened
Undefined == [undefined |-> TRUE]

\* the value a call returns: runOnce and the task of scheduleScraping run
\* the same steps and differ in what they return
Returned(call, value) == IF call.task THEN Undefined ELSE value

\* axios.get is called: one more fetch is in flight
Issued(call, kind, page) ==
    [call EXCEPT !.pending = call.pending \cup {<<kind, page>>},
                 !.fetches = call.fetches + 1]

\* Awaited with the await left out: the code goes on while the fetch is in
\* flight
NotAwaited(pending, fetch) == pending

\* `await`: the code goes on only when the fetch has ended
Awaited(pending, fetch) == pending \ {fetch}

\* runOnce after the scraping has returned `articles`: an empty list returns
\* at once, anything else is saved first
AfterScrape(call, articles) ==
    IF Len(articles) = 0
    THEN [call EXCEPT !.pc = "done", !.articles = articles,
                      !.result = Returned(call, Success(<<>>))]
    ELSE [call EXCEPT !.pc = "saving", !.articles = articles]

\* scrapeMultiplePages leaves its loop and returns to runOnce
LeaveLoop(call, endedBy) ==
    AfterScrape([call EXCEPT !.endedBy = endedBy],
                LoopResult(call.allArticles, endedBy))

\* scrapeMultiplePages at the top of its while loop
AtLoopTop(call) ==
    IF LoopContinues(call.currentPageUrl, call.pageCount, call.opts.maxPages)
    THEN Issued([call EXCEPT !.pc = "scrapePage",
                             !.pageCount = call.pageCount + 1,
                             !.visited = Append(call.visited, call.currentPageUrl)],
                "scrape", call.pageCount + 1)
    ELSE LeaveLoop(call, "limit")

NewCall(url, maxPages, usePagination) ==
    [pc |-> "start", url |-> url, maxPages |-> maxPages,
     usePagination |-> usePagination,
     opts |-> handlerOptions, currentPageUrl |-> Null, pageCount |-> 0,
     allArticles |-> <<>>, seenUrls |-> {},
     articles |-> <<>>, result |-> NotReturned,
     failed |-> {}, visited |-> <<>>, discovered |-> <<>>, endedBy |-> "none",
     pending |-> {}, fetches |-> 0, extracted |-> 0, searched |-> 0,
     task |-> FALSE, job |-> 0]

\* the locals of a run of the task scheduleScraping defines for a job
NewTask(url, maxPages, usePagination, job) ==
    [NewCall(url, maxPages, usePagination) EXCEPT !.task = TRUE, !.job = job]

\* the first lines of scrapeMultiplePages
EnterLoop(call) ==
    AtLoopTop([call EXCEPT !.opts = MergeOptions(handlerOptions, call.maxPages),
                           !.currentPageUrl = call.url,
                           !.pageCount = 0,
                           !.allArticles = <<>>,
                           !.seenUrls = {}])

\* "Scrape with or without pagination"
Started(call) ==
    IF call.usePagination /\ call.maxPages > 1
    THEN EnterLoop(call)
    ELSE Issued([call EXCEPT !.pc = "scrapeNews"], "scrape", 1)

\* runOnce up to its first await
RunOnce(c) ==
    /\ calls[c].pc = "start"
    /\ calls' = [calls EXCEPT ![c] = Started(calls[c])]
    /\ UNCHANGED <<exIn, exOut, pgIn, pgOut, web, sched, store>>

\* a fetch has ended and its await returns or throws: the history of failed
\* fetches
Fetched(call, kind, page, outcome) ==
    [call EXCEPT !.pending = Awaited(call.pending, <<kind, page>>),
                 !.failed = IF outcome.ok THEN call.failed
                            ELSE call.failed \cup {<<kind, page>>}]

\* the responses the site has given to each call so far, kept when web.record
\* is set
Given(site, c, outcome) ==
    IF site.record
    THEN [site EXCEPT !.given = [d \in DOMAIN site.given |->
                                    IF d = c THEN Append(site.given[d], outcome)
                                    ELSE site.given[d]]]
    ELSE site

\* runOnce from the return of scrapeNews on
ScrapeNewsStep(call, outcome) ==
    AfterScrape(Fetched(call, "scrape", 1, outcome),
                scrapeNews(outcome, call.url))

\* scrapeNews: the fetch of scrapeWithCheerio ends
ScrapeNewsFetched(c) ==
    /\ calls[c].pc = "scrapeNews"
    /\ \E outcome \in Responses(web, calls[c].url) :
         /\ calls' = [calls EXCEPT ![c] = ScrapeNewsStep(calls[c], outcome)]
         /\ web' = Given(web, c, outcome)
    /\ UNCHANGED <<exIn, exOut, pgIn, pgOut, sched, store>>

\* the page's articles are merged and findNextPage issues its own fetch
PageMerged(call, pageArticles, merged) ==
    Issued([call EXCEPT !.pc = "findNextPage",
                        !.allArticles = merged.allArticles,
                        !.seenUrls = merged.seenUrls,
                        !.discovered = call.discovered \o pageArticles,
                        !.extracted = call.extracted + 1],
           "next", call.pageCount)

\* SeenBy with the set kept on the handler, one for all its crawls
SeenByAll(call) == UNION {calls[d].seenUrls : d \in DOMAIN calls}

\* const seenUrls = new Set(): a local of the call
SeenBy(call) == call.seenUrls

PageScraped(call, pageArticles) ==
    PageMerged(call, pageArticles,
               MergePage(pageArticles, call.allArticles, SeenBy(call)))

\* scrapeMultiplePages from the return of scrapePage to the call of
\* findNextPage
ScrapePageStep(call, outcome) ==
    PageScraped(Fetched(call, "scrape", call.pageCount, outcome),
                scrapePage(outcome, call.currentPageUrl))

\* scrapeMultiplePages: the fetch of scrapePage ends
ScrapePageFetched(c) ==
    /\ calls[c].pc = "scrapePage"
    /\ \E outcome \in Responses(web, calls[c].currentPageUrl) :
         /\ calls' = [calls EXCEPT ![c] = ScrapePageStep(calls[c], outcome)]
         /\ web' = Given(web, c, outcome)
    /\ UNCHANGED <<exIn, exOut, pgIn, pgOut, sched, store>>

\* findNextPage: the catch turns a failed fetch into null
NextPageOf(outcome, currentUrl) ==
    IF outcome.ok THEN NextPageFrom(outcome.doc, currentUrl) ELSE Null

\* findNextPage has returned for one more page
Searched(call) == [call EXCEPT !.searched = call.searched + 1]

\* "if (nextPageUrl && this.isValidPagination(...))": a valid candidate
\* becomes the current URL and the delay starts, anything else breaks
NextPageFound(call, nextPageUrl) ==
    IF nextPageUrl = Null \/ nextPageUrl = <<>> THEN LeaveLoop(call, "noCandidate")
    ELSE IF isValidPagination(call.currentPageUrl, nextPageUrl, call.opts)
         THEN [call EXCEPT !.currentPageUrl = nextPageUrl, !.pc = "delay"]
         ELSE LeaveLoop(call, "rejected")

\* scrapeMultiplePages from the return of findNextPage to the next await
FindNextPageStep(call, outcome) ==
    NextPageFound(Searched(Fetched(call, "next", call.pageCount, outcome)),
                  NextPageOf(outcome, call.currentPageUrl))

\* scrapeMultiplePages: the fetch of findNextPage ends
FindNextPageFetched(c) ==
    /\ calls[c].pc = "findNextPage"
    /\ \E outcome \in Responses(web, calls[c].currentPageUrl) :
         /\ calls' = [calls EXCEPT ![c] = FindNextPageStep(calls[c], outcome)]
         /\ web' = Given(web, c, outcome)
    /\ UNCHANGED <<exIn, exOut, pgIn, pgOut, sched, store>>

\* scrapeMultiplePages: the delay has elapsed, back to the top of the loop
DelayElapsed(c) ==
    /\ calls[c].pc = "delay"
    /\ calls' = [calls EXCEPT ![c] = AtLoopTop(calls[c])]
    /\ UNCHANGED <<exIn, exOut, pgIn, pgOut, web, sched, store>>

\* runOnce: the save has ended; a write that throws is caught and reported
SaveEnded(call, written) ==
    [call EXCEPT !.pc = "done",
                 !.result = Returned(call, IF written THEN Success(call.articles)
                                           ELSE Failure)]

Saved(c) ==
    /\ calls[c].pc = "saving"
    /\ \E written \in BOOLEAN :
         calls' = [calls EXCEPT ![c] = SaveEnded(calls[c], written)]
    /\ UNCHANGED <<exIn, exOut, pgIn, pgOut, web, sched, store>>


----------------------------------------------------------------------------
(* The crawl's specification                                               *)

\* a site that may answer any fetch with any of the documents, or fail it
AnyOf(docs) == [docs |-> docs, record |-> FALSE]

\* the same, the responses given to each of the calls being recorded
Recorded(docs, ids) ==
    [docs |-> docs, record |-> TRUE, given |-> [c \in ids |-> <<>>]]

Init ==
    /\ \E url \in StartUrls, maxPages \in 1..MaxPagesBound,
          usePagination \in BOOLEAN :
         calls = [c \in {"run1"} |-> NewCall(url, maxPages, usePagination)]
    /\ exIn = NoExtraction
    /\ exOut = NoExtraction
    /\ pgIn = NoPagination
    /\ pgOut = NoPagination
    /\ web = AnyOf(CrawlDocs)
    /\ sched = NoScheduler
    /\ store = NoStorage

Next ==
    \/ \E c \in DOMAIN calls : RunOnce(c)
    \/ \E c \in DOMAIN calls : ScrapeNewsFetched(c)
    \/ \E c \in DOMAIN calls : ScrapePageFetched(c)
    \/ \E c \in DOMAIN calls : FindNextPageFetched(c)
    \/ \E c \in DOMAIN calls : DelayElapsed(c)
    \/ \E c \in DOMAIN calls : Saved(c)

Spec == Init /\ [][Next]_vars

\* Every await of a call ends: axios.get has a timeout, the delay is a timer
\* and the file write returns or throws.
FairSpec == Spec /\ WF_vars(Next)

----------------------------------------------------------------------------
(* The extraction engine exercised alone: extractArticles and parseArticle *)
(* applied to every document of at most MaxNodes nodes of the pool.        *)

\* The largest number of nodes of a document given to the extraction engine.
MaxNodes == 2

LinkText == TextOf(MinLinkText)

\* "A short text."
ShortText == <<"A", " ", "s", "h", "o", "r", "t", " ", "t", "e", "x", "t", ".">>

\* "2024-01-02"
IsoDate == <<"2", "0", "2", "4", "-", "0", "1", "-", "0", "2">>
\* "2 Jan"
DateText == <<"2", " ", "J", "a", "n">>

NodePool ==
    \* "Title 1"
    { Container({"article"}, <<"T", "i", "t", "l", "e", " ", "1">>, H_A1),
      \* the same URL again, under a selector of lower priority as well
      \* "Other title"
      Container({"article", ".item"}, <<"O", "t", "h", "e", "r", " ", "t", "i", "t", "l", "e">>, H_A1),
      \* "Title 3"
      Container({".item"}, <<"T", "i", "t", "l", "e", " ", "3">>, H_A3),
      \* a title of whitespace only; its link is long enough to be harvested
      \* " "
      [sel |-> {"article"}, titles |-> <<<<" ">>>>,
       els |-> <<Anchor(H_A2, LinkText, <<>>)>>,
       descs |-> NoDescs,
       dates |-> NoDates, authors |-> NoAuthors],
      \* "Title 2"
      Container({"article"}, <<"T", "i", "t", "l", "e", " ", "2">>, H_Mail),
      \* first title element empty; first href does not resolve, the <link>
      \* element's does
      \* " Title  2 "
      [sel |-> {".item"}, titles |-> <<<<>>, <<" ", "T", "i", "t", "l", "e", " ", " ", "2", " ">>>>,
       \* "read"
       els |-> <<Anchor(H_Bad, <<"r", "e", "a", "d">>, <<>>),
                 [tag |-> "link", href |-> H_A2, text |-> <<>>, cls |-> <<>>]>>,
       descs |-> NoDescs,
       dates |-> NoDates, authors |-> NoAuthors],
      \* no element with an href
      \* "Title 4"
      [sel |-> {"article"}, titles |-> <<<<"T", "i", "t", "l", "e", " ", "4">>>>, els |-> <<>>,
       descs |-> NoDescs,
       dates |-> NoDates, authors |-> NoAuthors],
      \* a short paragraph, then an excerpt and a summary that are long enough
      \* "Title 1"
      Described({"article"}, <<"T", "i", "t", "l", "e", " ", "1">>, H_A1,
                <<ShortText, TextOf(MinDescription + 1),
                  TextOf(MinDescription + 2), Null, Null>>),
      \* no candidate is long enough: the last one is MinDescription long
      \* once trimmed
      \* "Title 2"
      Described({"article"}, <<"T", "i", "t", "l", "e", " ", "2">>, H_A2,
                <<ShortText, Null, Null, Null,
                  <<" ">> \o TextOf(MinDescription) \o <<" ", "\n">>>>),
      \* a paragraph longer than MaxDescription
      \* "Title 3"
      Described({".item"}, <<"T", "i", "t", "l", "e", " ", "3">>, H_A3,
                <<TextOf(MaxDescription + 1), Null, Null, Null, Null>>),
      \* <time datetime="2024-01-02">2 Jan</time>, and both author elements
      \* "Title 1"
      Signed({"article"}, <<"T", "i", "t", "l", "e", " ", "1">>, H_A1,
             <<Element(IsoDate, DateText), Element(IsoDate, <<>>),
               Element(Null, DateText)>>,
             \* " Ann ", "Bob"
             <<Element(Null, <<" ", "A", "n", "n", " ">>), Element(Null, <<"B", "o", "b">>)>>),
      \* no <time>: a <span datetime="2024-01-02">, a <span class="date">,
      \* and <a rel="author">Bob</a> alone
      \* "Title 2"
      Signed({"article"}, <<"T", "i", "t", "l", "e", " ", "2">>, H_A2,
             <<NoElement, Element(IsoDate, <<>>), Element(Null, DateText)>>,
             \* "Bob"
             <<NoElement, Element(Null, <<"B", "o", "b">>)>>),
      \* <time> 2 Jan </time> without the attribute
      \* "Title 3"
      Signed({".item"}, <<"T", "i", "t", "l", "e", " ", "3">>, H_A3,
             <<Element(Null, <<" ">> \o DateText \o <<" ">>), NoElement,
               NoElement>>,
             NoAuthors),
      \* a path of one segment without any article pattern, and a document
      BareAnchor(H_About, LinkText, <<>>),
      BareAnchor(H_Pdf, LinkText, <<>>),
      BareAnchor(H_A3, LinkText, <<>>),
      BareAnchor(H_A3, TextOf(MinLinkText + 1), <<>>),
      \* "Nav-item"
      BareAnchor(H_A2, LinkText, <<"N", "a", "v", "-", "i", "t", "e", "m">>),
      \* "Home"
      BareAnchor(H_A1, <<"H", "o", "m", "e">>, <<>>),
      BareAnchor(H_Mail, LinkText, <<>>) }

SeqsUpTo(S, n) == UNION {[1..k -> S] : k \in 0..n}

ExtractDocs == {Doc(nodes, NoNext, <<>>) : nodes \in SeqsUpTo(NodePool, MaxNodes)}

ExtractInit ==
    /\ calls = <<>>
    /\ exIn \in {[used |-> TRUE, doc |-> d, baseUrl |-> U_News] : d \in ExtractDocs}
    /\ exOut = [extracted |-> FALSE, articles |-> <<>>,
                parsed |-> FALSE, records |-> <<>>]
    /\ pgIn = NoPagination
    /\ pgOut = NoPagination
    /\ web = NoWeb
    /\ sched = NoScheduler
    /\ store = NoStorage

\* extractArticles($, baseUrl) on the document
ExtractArticles ==
    /\ exIn.used /\ ~exOut.extracted
    /\ exOut' = [exOut EXCEPT
                     !.extracted = TRUE,
                     !.articles = extractArticles(exIn.doc, exIn.baseUrl)]
    /\ UNCHANGED <<calls, exIn, pgIn, pgOut, web, sched, store>>

\* parseArticle($article, $, baseUrl) on every node of the document
ParseEach ==
    /\ exIn.used /\ ~exOut.parsed
    /\ exOut' = [exOut EXCEPT
                     !.parsed = TRUE,
                     !.records = [i \in 1..Len(exIn.doc.nodes) |->
                                     parseArticle(exIn.doc.nodes[i], exIn.baseUrl)]]
    /\ UNCHANGED <<calls, exIn, pgIn, pgOut, web, sched, store>>

ExtractNext == ExtractArticles \/ ParseEach

SpecExtract == ExtractInit /\ [][ExtractNext]_vars

----------------------------------------------------------------------------
(* The pagination engine exercised alone: isValidPagination on pairs of    *)
(* URLs, findNextPage on the documents of at most MaxPageLinks numbered    *)
(* links of the pool.                                                      *)

\* The largest number of anchors in a document's pagination widget.
MaxPageLinks == 3

\* "https://a.com/news/page/3"
U_NewsPage3 == <<"h", "t", "t", "p", "s", ":", "/", "/", "a", ".", "c", "o", "m", "/", "n", "e", "w", "s", "/", "p", "a", "g", "e", "/", "3">>
\* "https://a.com/list?page=3"
U_ListQ3 == <<"h", "t", "t", "p", "s", ":", "/", "/", "a", ".", "c", "o", "m", "/", "l", "i", "s", "t", "?", "p", "a", "g", "e", "=", "3">>
\* "https://a.com"
U_Root == <<"h", "t", "t", "p", "s", ":", "/", "/", "a", ".", "c", "o", "m">>
\* "a.com/news"
U_NoScheme == <<"a", ".", "c", "o", "m", "/", "n", "e", "w", "s">>
\* "https://a.com/about"
U_About == <<"h", "t", "t", "p", "s", ":", "/", "/", "a", ".", "c", "o", "m", "/", "a", "b", "o", "u", "t">>
\* "https://a.com/news/a1"
U_NewsA1 == <<"h", "t", "t", "p", "s", ":", "/", "/", "a", ".", "c", "o", "m", "/", "n", "e", "w", "s", "/", "a", "1">>
\* "https://b.com/news"
U_OtherNews == <<"h", "t", "t", "p", "s", ":", "/", "/", "b", ".", "c", "o", "m", "/", "n", "e", "w", "s">>
\* "/news/page/1"
H_Page1 == <<"/", "n", "e", "w", "s", "/", "p", "a", "g", "e", "/", "1">>

PagingCurrentUrls == {U_News, U_NewsPage2, U_ListQ3, U_Root, U_NoScheme}

\* current URLs for the URL patterns of strategy 3: every base with every
\* ending
SynthBases == {U_Root, U_News}

SynthEndings ==
    \* "/page/2", "/page/2/", "?page=3", "?x=1&page=2", "/p/2"
    { <<>>, <<"/">>, <<"/", "p", "a", "g", "e", "/", "2">>, <<"/", "p", "a", "g", "e", "/", "2", "/">>, <<"?", "p", "a", "g", "e", "=", "3">>, <<"?", "x", "=", "1", "&", "p", "a", "g", "e", "=", "2">>, <<"/", "p", "/", "2">>,
      \* "?x=1"
      <<"?", "x", "=", "1">> }

SynthUrls == {base \o ending : base \in SynthBases, ending \in SynthEndings}

\* a document without any pagination markup
DocBare == Doc(<<>>, NoNext, <<>>)

PagingCandidates ==
    PagingCurrentUrls
        \cup {U_NewsPage3, U_Other, U_OtherNews, U_About, U_NewsA1, H_Bad}

PageLinkPool ==
    { PageLink(H_Page1, <<"1">>), PageLink(H_Page3, <<" ", "3", " ">>),
      \* "Next"
      PageLink(H_Page5, <<"5">>), PageLink(H_Page2, <<"N", "e", "x", "t">>),
      PageLink(H_A1, <<>>), PageLink(Null, <<"2">>) }

NextPool ==
    { NoNext, NextLink(H_Page2),
      \* a.next is a javascript: link; the first match of the third
      \* selector has no href
      <<<<H_Js>>, <<>>, <<Null, H_Page3>>, <<>>, <<>>, <<>>>> }

PagingDocs ==
    {Doc(<<>>, next, links) :
        next \in NextPool, links \in SeqsUpTo(PageLinkPool, MaxPageLinks)}

PagingInit ==
    /\ calls = <<>>
    /\ exIn = NoExtraction
    /\ exOut = NoExtraction
    /\ \/ pgIn \in {[kind |-> "validate", currentUrl |-> u, candidate |-> n,
                     sameDomainOnly |-> b] :
                       u \in PagingCurrentUrls, n \in PagingCandidates,
                       b \in BOOLEAN}
       \/ pgIn \in {[kind |-> "find", currentUrl |-> u, doc |-> d] :
                       u \in PagingCurrentUrls \ {U_NoScheme}, d \in PagingDocs}
       \/ pgIn \in {[kind |-> "find", currentUrl |-> u, doc |-> DocBare] :
                       u \in SynthUrls}
    /\ pgOut = [done |-> FALSE]
    /\ web = NoWeb
    /\ sched = NoScheduler
    /\ store = NoStorage

\* isValidPagination(currentUrl, nextUrl, options)
Validate ==
    /\ pgIn.kind = "validate" /\ ~pgOut.done
    /\ pgOut' = [done |-> TRUE,
                 valid |-> isValidPagination(
                     pgIn.currentUrl, pgIn.candidate,
                     [handlerOptions EXCEPT !.sameDomainOnly = pgIn.sameDomainOnly])]
    /\ UNCHANGED <<calls, exIn, exOut, pgIn, web, sched, store>>

\* findNextPage(currentUrl) on a fetched document
FindNext ==
    /\ pgIn.kind = "find" /\ ~pgOut.done
    /\ pgOut' = [done |-> TRUE, next |-> findNextPage(pgIn.doc, pgIn.currentUrl)]
    /\ UNCHANGED <<calls, exIn, exOut, pgIn, web, sched, store>>

PagingNext == Validate \/ FindNext

SpecPaging == PagingInit /\ [][PagingNext]_vars



----------------------------------------------------------------------------
(* Two calls at once on one NewsScheduler, hence on one PaginationHandler  *)
(* and one NewsScraper: the steps of the two interleave in every order.    *)
(* The responses the site gives to each call are recorded, and Replay runs *)
(* one call alone against the responses it was given.                      *)

\* the documents of the site the two calls crawl
TwoCrawlDocs == {DocFirst, DocSecond}

TwoInit ==
    /\ \E url \in {U_News, U_NewsPage2}, usePagination \in BOOLEAN :
         calls = [c \in {"run1", "run2"} |->
                     IF c = "run1" THEN NewCall(U_News, 2, TRUE)
                     ELSE NewCall(url, 2, usePagination)]
    /\ exIn = NoExtraction
    /\ exOut = NoExtraction
    /\ pgIn = NoPagination
    /\ pgOut = NoPagination
    /\ web = Recorded(TwoCrawlDocs, {"run1", "run2"})
    /\ sched = NoScheduler
    /\ store = NoStorage

SpecTwo == TwoInit /\ [][Next]_vars

\* the step a call suspended at a fetch takes when the fetch ends
FetchStep(call, outcome) ==
    CASE call.pc = "scrapeNews" -> ScrapeNewsStep(call, outcome)
      [] call.pc = "scrapePage" -> ScrapePageStep(call, outcome)
      [] call.pc = "findNextPage" -> FindNextPageStep(call, outcome)

\* the call run alone from `call` on, its fetches answered by `responses` in
\* order, up to the return of the scraping
RECURSIVE Replay(_, _)
Replay(call, responses) ==
    IF call.pc = "start" THEN Replay(Started(call), responses)
    ELSE IF call.pc = "delay" THEN Replay(AtLoopTop(call), responses)
    ELSE IF call.pc \in {"saving", "done"} \/ Len(responses) = 0 THEN call
    ELSE Replay(FetchStep(call, Head(responses)), Tail(responses))


----------------------------------------------------------------------------
(* NewsScheduler: scheduleScraping, the interval timers, cancelJob and     *)
(* runOnce. A job's id is its number in the order of creation, and its     *)
(* interval timer has the same number. Each run of a task, and each call   *)
(* of runOnce, is a call of `calls`, here a sequence.                      *)

\* scheduleScraping is called at most this often with a valid URL
MaxJobs == 2

\* at most this many task runs and runOnce calls are started
MaxRuns == 2

\* the URLs a caller passes: one valid, the others not
ConfigUrls == {U_News, U_NoScheme, H_Mail, <<>>}

\* the documents of the scheduled site
SchedDocs == {DocPlain, DocOffSite}

\* nothing has been called yet
NoCall == [op |-> "none"]

\* the constructor: `new Map()`, and no timer. created holds every job made
\* so far (the timers' closures), scheduledJobs the ids the Map holds.
NewScheduler ==
    [used |-> TRUE, created |-> <<>>, scheduledJobs |-> {}, timers |-> {},
     cancelled |-> {}, last |-> NoCall]

\* "Validate URL": the test that throws
UrlRejected(url) == Len(url) = 0 \/ ~isValidUrl(url)

\* the job record stored under the job's id
Job(id, url) ==
    [id |-> id, url |-> url, maxPages |-> 1, usePagination |-> FALSE,
     intervalId |-> id]

\* setInterval(task, interval)
SetInterval(timers, intervalId) == timers \cup {intervalId}

\* cancelJob without its clearInterval
KeepInterval(timers, intervalId) == timers

\* clearInterval(job.intervalId)
ClearInterval(timers, intervalId) == timers \ {intervalId}

\* task(): one run of a job's task up to its first await
TaskRun(job) ==
    Started(NewTask(job.url, job.maxPages, job.usePagination, job.id))

\* scheduleScraping(config) with an acceptable URL: the timer, the registry
\* entry, and the value returned
Scheduled(s, job) ==
    [s EXCEPT !.created = Append(s.created, job),
              !.scheduledJobs = s.scheduledJobs \cup {job.id},
              !.timers = SetInterval(s.timers, job.intervalId),
              !.last = [op |-> "scheduleScraping", url |-> job.url,
                        threw |-> FALSE, returned |-> job]]

\* scheduleScraping(config): throws on a bad URL before anything is created,
\* and otherwise sets the timer, registers the job and runs the task once
ScheduleScraping ==
    /\ sched.used
    /\ \E url \in ConfigUrls :
         IF UrlRejected(url)
         THEN /\ sched' = [sched EXCEPT !.last = [op |-> "scheduleScraping",
                                                  url |-> url, threw |-> TRUE]]
              /\ UNCHANGED calls
         ELSE /\ Len(sched.created) < MaxJobs
              /\ Len(calls) < MaxRuns
              /\ sched' = Scheduled(sched, Job(Len(sched.created) + 1, url))
              /\ calls' = Append(calls,
                                 TaskRun(Job(Len(sched.created) + 1, url)))
    /\ UNCHANGED <<exIn, exOut, pgIn, pgOut, web, store>>

\* the interval of a timer that is set has elapsed: the task runs again
TimerFired ==
    /\ sched.used
    /\ Len(calls) < MaxRuns
    /\ \E t \in sched.timers :
         calls' = Append(calls, TaskRun(sched.created[t]))
    /\ UNCHANGED <<exIn, exOut, pgIn, pgOut, web, sched, store>>

\* cancelJob(jobId) of a job of the registry
Cancelled(s, job) ==
    [s EXCEPT !.timers = ClearInterval(s.timers, job.intervalId),
              !.scheduledJobs = s.scheduledJobs \ {job.id},
              !.cancelled = s.cancelled \cup {job.id},
              !.last = [op |-> "cancelJob", jobId |-> job.id,
                        returned |-> TRUE]]

\* cancelJob(jobId): false for an id the registry does not hold
CancelJob ==
    /\ sched.used
    /\ \E jobId \in 1..MaxJobs :
         sched' = IF jobId \notin sched.scheduledJobs
                  THEN [sched EXCEPT !.last = [op |-> "cancelJob",
                                               jobId |-> jobId,
                                               returned |-> FALSE]]
                  ELSE Cancelled(sched, sched.created[jobId])
    /\ UNCHANGED <<calls, exIn, exOut, pgIn, pgOut, web, store>>

\* runOnce(config) is called: its locals, nothing checked
CallRunOnce ==
    /\ sched.used
    /\ Len(calls) < MaxRuns
    /\ \E url \in ConfigUrls : calls' = Append(calls, NewCall(url, 1, FALSE))
    /\ UNCHANGED <<exIn, exOut, pgIn, pgOut, web, sched, store>>

SchedInit ==
    /\ calls = <<>>
    /\ exIn = NoExtraction
    /\ exOut = NoExtraction
    /\ pgIn = NoPagination
    /\ pgOut = NoPagination
    /\ web = AnyOf(SchedDocs)
    /\ sched = NewScheduler
    /\ store = NoStorage

SchedNext ==
    \/ ScheduleScraping
    \/ TimerFired
    \/ CancelJob
    \/ CallRunOnce
    \/ \E c \in DOMAIN calls : RunOnce(c)
    \/ \E c \in DOMAIN calls : ScrapeNewsFetched(c)
    \/ \E c \in DOMAIN calls : Saved(c)

SpecSched == SchedInit /\ [][SchedNext]_vars


----------------------------------------------------------------------------
(* DataStorage.appendToJson on the accumulated file.  store.file is the    *)
(* file; store.prior and store.incoming are the file before the last       *)
(* append and the articles that append was given.                          *)

\* The largest number of articles in one batch given to appendToJson.
MaxBatch == 2

\* no file at the path: fs.readFile throws
AbsentFile == [exists |-> FALSE, parses |-> FALSE, articles |-> <<>>,
               totalArticles |-> 0]

\* a file that is not JSON: JSON.parse throws
CorruptFile == [exists |-> TRUE, parses |-> FALSE, articles |-> <<>>,
                totalArticles |-> 0]

\* the file JSON.stringify(existingData) gives
DataFile(articles, totalArticles) ==
    [exists |-> TRUE, parses |-> TRUE, articles |-> articles,
     totalArticles |-> totalArticles]

\* existingData after the try: { articles: [] } unless the file was read
\* and parsed
ExistingArticles(file) ==
    IF file.exists /\ file.parses THEN file.articles ELSE <<>>

\* new Set(existingData.articles.map(a => a.url))
ExistingUrls(articles) == {articles[i].url : i \in 1..Len(articles)}

\* IsNewToFile with the test left out
IsNewToFileAlways(existingUrls, a) == TRUE

\* !existingUrls.has(a.url)
IsNewToFile(existingUrls, a) == a.url \notin existingUrls

\* articles.filter(a => !existingUrls.has(a.url))
NewArticles(articles, existingUrls) ==
    SelectSeq(articles, LAMBDA a : IsNewToFile(existingUrls, a))

\* existingData.articles.push(...newArticles); totalArticles = length
Merged(existing, newArticles) ==
    DataFile(existing \o newArticles, Len(existing) + Len(newArticles))

MergeInto(existing, articles) ==
    Merged(existing, NewArticles(articles, ExistingUrls(existing)))

\* DataStorage.appendToJson: the file it writes
appendToJson(file, articles) == MergeInto(ExistingArticles(file), articles)

\* the articles given to appendToJson: two URLs, one of them with two titles
StoredArticles ==
    \* "Title 1"
    { MakeArticle(<<"T", "i", "t", "l", "e", " ", "1">>, ResolveUrl(H_A1, U_News).href, <<>>),
      \* "Other title"
      MakeArticle(<<"O", "t", "h", "e", "r", " ", "t", "i", "t", "l", "e">>, ResolveUrl(H_A1, U_News).href, <<>>),
      \* "Title 2"
      MakeArticle(<<"T", "i", "t", "l", "e", " ", "2">>, ResolveUrl(H_A2, U_News).href, <<>>) }

Batches == SeqsUpTo(StoredArticles, MaxBatch)

StorageInit ==
    /\ calls = <<>>
    /\ exIn = NoExtraction
    /\ exOut = NoExtraction
    /\ pgIn = NoPagination
    /\ pgOut = NoPagination
    /\ web = NoWeb
    /\ sched = NoScheduler
    /\ \E file \in {AbsentFile, CorruptFile, DataFile(<<>>, 0)} :
         store = [used |-> TRUE, file |-> file, appended |-> FALSE,
                  prior |-> file, incoming |-> <<>>]

\* a call of appendToJson whose write succeeds
AppendToJson ==
    /\ store.used
    /\ \E articles \in Batches :
         store' = [store EXCEPT !.file = appendToJson(store.file, articles),
                                !.appended = TRUE,
                                !.prior = store.file,
                                !.incoming = articles]
    /\ UNCHANGED <<calls, exIn, exOut, pgIn, pgOut, web, sched>>

\* a call of appendToJson whose fs.writeFile throws: the file stays
AppendFails ==
    /\ store.used
    /\ \E articles \in Batches :
         store' = [store EXCEPT !.appended = FALSE,
                                !.prior = store.file,
                                !.incoming = articles]
    /\ UNCHANGED <<calls, exIn, exOut, pgIn, pgOut, web, sched>>

StorageNext == AppendToJson \/ AppendFails

SpecStorage == StorageInit /\ [][StorageNext]_vars


----------------------------------------------------------------------------
(* Calls of appendToJson on one file that overlap: each call reads the     *)
(* file, merges in memory and writes the whole file back, and the two      *)
(* awaits let the steps of other calls in between. A write replaces the    *)
(* file at once.                                                           *)

\* the calls of appendToJson: the save of two runs of a job's task, or of
\* two jobs with one filename
Appends == {"append1", "append2"}

\* a call not made yet
NotCalled == [pc |-> "idle", articles |-> <<>>, existingData |-> AbsentFile]

OverlapInit ==
    /\ calls = <<>>
    /\ exIn = NoExtraction
    /\ exOut = NoExtraction
    /\ pgIn = NoPagination
    /\ pgOut = NoPagination
    /\ web = NoWeb
    /\ sched = NoScheduler
    /\ \E file \in {AbsentFile, DataFile(<<>>, 0)} :
         store = [used |-> TRUE, file |-> file,
                  appends |-> [a \in Appends |-> NotCalled]]

\* appendToJson(articles) is called and awaits fs.readFile
AppendCalled(a) ==
    /\ store.appends[a].pc = "idle"
    /\ \E articles \in Batches :
         store' = [store EXCEPT !.appends[a].pc = "reading",
                                !.appends[a].articles = articles]
    /\ UNCHANGED <<calls, exIn, exOut, pgIn, pgOut, web, sched>>

\* fs.readFile has ended: existingData is merged with the articles and
\* fs.writeFile is awaited
FileRead(a) ==
    /\ store.appends[a].pc = "reading"
    /\ store' = [store EXCEPT
                    !.appends[a].pc = "writing",
                    !.appends[a].existingData =
                        appendToJson(store.file, store.appends[a].articles)]
    /\ UNCHANGED <<calls, exIn, exOut, pgIn, pgOut, web, sched>>

\* fs.writeFile has ended: the file is what the call had merged
FileWritten(a) ==
    /\ store.appends[a].pc = "writing"
    /\ store' = [store EXCEPT !.appends[a].pc = "done",
                              !.file = store.appends[a].existingData]
    /\ UNCHANGED <<calls, exIn, exOut, pgIn, pgOut, web, sched>>

OverlapNext ==
    \/ \E a \in Appends : AppendCalled(a)
    \/ \E a \in Appends : FileRead(a)
    \/ \E a \in Appends : FileWritten(a)

SpecOverlap == OverlapInit /\ [][OverlapNext]_vars

----------------------------------------------------------------------------
(* Properties                                                              *)

Urls(articles) == {articles[i].url : i \in 1..Len(articles)}

NoDuplicateUrls(articles) ==
    \A i, j \in 1..Len(articles) : articles[i].url = articles[j].url => i = j

\* a crawl of scrapeMultiplePages, as opposed to a single scrapeNews
IsMultiPage(call) == call.usePagination /\ call.maxPages > 1

\* the records of a list whose URL occurs at no earlier position, in order
RECURSIVE FirstOccurrences(_)
FirstOccurrences(articles) ==
    IF Len(articles) = 0 THEN <<>>
    ELSE LET init == SubSeq(articles, 1, Len(articles) - 1)
             last == articles[Len(articles)]
         IN  IF last.url \in Urls(init) THEN FirstOccurrences(init)
             ELSE Append(FirstOccurrences(init), last)

\* C1: whatever the fetches return, every call comes to its end, and at no
\* time has a crawl counted more pages than its maxPages.
C1_TerminatesWithinMaxPages ==
    /\ [](\A c \in DOMAIN calls : calls[c].pageCount <= calls[c].maxPages)
    /\ <>(\A c \in DOMAIN calls : calls[c].pc = "done")

\* a crawl whose third page was the starting URL again and which ended at
\* its page limit
C1_Witness ==
    \E c \in DOMAIN calls :
        /\ calls[c].pc = "done"
        /\ calls[c].endedBy = "limit"
        /\ calls[c].pageCount = calls[c].maxPages
        /\ Len(calls[c].visited) >= 3
        /\ calls[c].visited[3] = calls[c].visited[1]

\* C2: in every state the accumulated list holds no URL twice and the
\* seen-set is exactly the set of its URLs.
C2_AccumulatorDeduplicated ==
    \A c \in DOMAIN calls :
        /\ NoDuplicateUrls(calls[c].allArticles)
        /\ calls[c].seenUrls = Urls(calls[c].allArticles)

\* a second page has been merged, and the pages returned some URL twice
C2_Witness ==
    \E c \in DOMAIN calls :
        /\ calls[c].pageCount >= 2
        /\ calls[c].pc = "findNextPage"
        /\ ~NoDuplicateUrls(calls[c].discovered)
        /\ Len(calls[c].allArticles) >= 2
        /\ Len(calls[c].allArticles) < Len(calls[c].discovered)

\* C3: extractArticles returns no two records with the same url.
C3_ExtractedUrlsDistinct ==
    exOut.extracted => NoDuplicateUrls(exOut.articles)

\* an absolute URL with scheme http or https
IsAbsoluteHttp(url) ==
    /\ \E prefix \in {HttpPrefix, HttpsPrefix} :
          /\ StartsWith(url, prefix)
          /\ Len(url) > Len(prefix)
          /\ url[Len(prefix) + 1] \notin {"/", "?"}
    /\ \A i \in 1..Len(url) : url[i] \notin Whitespace

\* the node has a title text that is not blank
NodeHasTitle(node) ==
    \E k \in 1..Len(node.titles) :
        \E i \in 1..Len(node.titles[k]) : node.titles[k][i] \notin Whitespace

\* the node has an element whose href resolves to an http(s) URL
NodeHasHttpLink(node, baseUrl) ==
    \E k \in 1..Len(node.els) :
        /\ node.els[k].href # Null
        /\ node.els[k].href # <<>>
        /\ ResolveUrl(node.els[k].href, baseUrl).ok
        /\ IsAbsoluteHttp(ResolveUrl(node.els[k].href, baseUrl).href)

\* C4: every record extractArticles emits has a title and an absolute
\* http(s) url, and parseArticle gives no record for a container without a
\* title or without a link to an http(s) URL.
C4_RecordsValid ==
    /\ exOut.extracted =>
         \A i \in 1..Len(exOut.articles) :
            /\ exOut.articles[i].title # <<>>
            /\ IsAbsoluteHttp(exOut.articles[i].url)
    /\ exOut.parsed =>
         \A i \in 1..Len(exIn.doc.nodes) :
            (~NodeHasTitle(exIn.doc.nodes[i])
               \/ ~NodeHasHttpLink(exIn.doc.nodes[i], exIn.baseUrl))
            => exOut.records[i] = NullArticle

\* a document with a container that has a title and a mailto: link, and
\* another container that gave a record
C4_Witness ==
    /\ exOut.extracted /\ exOut.parsed
    /\ Len(exOut.articles) = 1
    /\ \E i \in 1..Len(exIn.doc.nodes) :
          /\ exIn.doc.nodes[i].sel # {}
          /\ NodeHasTitle(exIn.doc.nodes[i])
          /\ ~NodeHasHttpLink(exIn.doc.nodes[i], exIn.baseUrl)
          /\ exOut.records[i] = NullArticle

\* the records the k-th selector alone accepts on the document
AcceptedAlone(doc, baseUrl, k) ==
    AddArticles(Matching(doc, selectors[k]), baseUrl,
                [articles |-> <<>>, seenUrls |-> {}]).articles

\* the selectors that accept at least one record on the document
Productive(doc, baseUrl) ==
    {k \in 1..Len(selectors) : Len(AcceptedAlone(doc, baseUrl, k)) > 0}

\* C5: the result of extractArticles is what the first productive selector
\* alone accepts, and the harvested links when no selector is productive.
C5_FirstProductiveSelectorDecides ==
    exOut.extracted =>
        LET productive == Productive(exIn.doc, exIn.baseUrl)
        IN  IF productive = {}
            THEN exOut.articles = extractFromLinks(exIn.doc, exIn.baseUrl)
            ELSE exOut.articles =
                    AcceptedAlone(exIn.doc, exIn.baseUrl, MinOf(productive))

\* two selectors are productive, and the second accepts a record that the
\* result does not hold
C5_Witness ==
    /\ exOut.extracted
    /\ Cardinality(Productive(exIn.doc, exIn.baseUrl)) >= 2
    /\ \E k \in Productive(exIn.doc, exIn.baseUrl) :
          \E r \in Urls(AcceptedAlone(exIn.doc, exIn.baseUrl, k)) :
              r \notin Urls(exOut.articles)

\* the host of a URL string: what stands between "://" and the next "/" or
\* "?"; empty when the string has no "://"
HostOf(url) ==
    \* "://"
    LET i == IndexOf(url, <<":", "/", "/">>)
    IN  IF i = 0 THEN <<>>
        ELSE SubSeq(url, i + 3, FirstOf(url, {"/", "?"}, i + 3) - 1)

\* C6: isValidPagination is false for a candidate identical to the current
\* URL, and false for a candidate on another host when sameDomainOnly is set.
C6_RejectsIdentityAndOtherHost ==
    (pgIn.kind = "validate" /\ pgOut.done) =>
        /\ pgIn.candidate = pgIn.currentUrl => ~pgOut.valid
        /\ (pgIn.sameDomainOnly
              /\ HostOf(pgIn.candidate) # HostOf(pgIn.currentUrl)) => ~pgOut.valid

\* a candidate on another host whose path continues the current path
C6_Witness ==
    /\ pgIn.kind = "validate" /\ pgOut.done
    /\ pgIn.currentUrl = U_News /\ pgIn.candidate = U_Other
    /\ pgIn.sameDomainOnly
    /\ ~pgOut.valid

\* the numbered links findNextPage collects on the document
NumberedLinks == CollectPageLinks(pgIn.doc.pageLinks, pgIn.currentUrl)

\* C7: without an explicit next link, findNextPage returns the link with
\* the smallest number above the current page number, and no link numbered
\* at or below it.
C7_SmallestLaterNumber ==
    (/\ pgIn.kind = "find" /\ pgOut.done
     /\ NextLinkFrom(pgIn.doc.next, pgIn.currentUrl, 1) = Null) =>
        LET links == NumberedLinks
            current == extractPageNumber(pgIn.currentUrl)
            later == {i \in 1..Len(links) :
                         ~links[i].page.nan /\ links[i].page.n > current}
        IN  /\ later # {} =>
                 \E i \in later :
                    /\ pgOut.next = links[i].url
                    /\ \A j \in later : links[i].page.n <= links[j].page.n
            /\ \A i \in (1..Len(links)) \ later : pgOut.next # links[i].url

\* on page 1, the links 5, 3, 1 in this document order: page 3 is returned
C7_Witness ==
    /\ pgIn.kind = "find" /\ pgOut.done
    /\ pgIn.currentUrl = U_News
    /\ pgIn.doc.next = NoNext
    /\ Len(pgIn.doc.pageLinks) = 3
    /\ pgIn.doc.pageLinks[1].text = <<"5">>
    /\ Trim(pgIn.doc.pageLinks[2].text) = <<"3">>
    /\ pgIn.doc.pageLinks[3].text = <<"1">>
    /\ pgOut.next = U_NewsPage3

\* C8: a call whose first page could not be fetched returns a failure.
C8_FirstPageFailureReported ==
    \A c \in DOMAIN calls :
        (calls[c].pc = "done" /\ <<"scrape", 1>> \in calls[c].failed) =>
            ~calls[c].result.success

\* C9: once the fetch of a page after the first has failed, no later page
\* is scraped.
C9_StopsAtFailedPage ==
    \A c \in DOMAIN calls :
        \A f \in calls[c].failed :
            (f[1] = "scrape" /\ f[2] >= 2) => calls[c].pageCount <= f[2]

\* C10: however the loop is left, scrapeMultiplePages returns to runOnce
\* every article the visited pages gave, each URL once, in discovery order.
C10_ReturnsAccumulated ==
    \A c \in DOMAIN calls :
        (IsMultiPage(calls[c]) /\ calls[c].pc \in {"saving", "done"}) =>
            /\ calls[c].endedBy \in {"noCandidate", "rejected", "limit"}
            /\ calls[c].articles = FirstOccurrences(calls[c].discovered)
            /\ calls[c].result # Failure =>
                  (calls[c].pc = "done" =>
                      calls[c].result = Success(calls[c].articles))

\* a crawl of two pages or more that a rejected candidate ended, with the
\* articles of its pages returned
C10_Witness ==
    \E c \in DOMAIN calls :
        /\ calls[c].pc = "done"
        /\ calls[c].endedBy = "rejected"
        /\ calls[c].pageCount >= 2
        /\ Len(calls[c].articles) >= 3
        /\ calls[c].result = Success(calls[c].articles)

\* the fallback returned the same URL twice
C3_Witness ==
    /\ exOut.extracted
    /\ Len(exOut.articles) = 2
    /\ exOut.articles[1].url = exOut.articles[2].url
    /\ Productive(exIn.doc, exIn.baseUrl) = {}

\* a single-page call whose only fetch failed has returned a success with
\* no articles
C8_Witness ==
    \E c \in DOMAIN calls :
        /\ calls[c].pc = "done"
        /\ ~IsMultiPage(calls[c])
        /\ <<"scrape", 1>> \in calls[c].failed
        /\ calls[c].result = Success(<<>>)

\* the fetch of page 2 failed and page 3 was scraped
C9_Witness ==
    \E c \in DOMAIN calls :
        /\ <<"scrape", 2>> \in calls[c].failed
        /\ calls[c].pageCount = 3
        /\ calls[c].pc = "done"


\* C11: at most one fetch of a crawl is in flight, it is a fetch of the page
\* the counter stands at, the scrape fetch of a page starts only when the
\* extraction and the discovery of every earlier page have ended, and the
\* discovery fetch of a page only when its extraction has ended.
C11_PagesInSequence ==
    \A c \in DOMAIN calls :
        /\ Cardinality(calls[c].pending) <= 1
        /\ \A f \in calls[c].pending :
              /\ f[2] = IF IsMultiPage(calls[c]) THEN calls[c].pageCount ELSE 1
              /\ f[1] = "scrape" =>
                    /\ calls[c].extracted = IF IsMultiPage(calls[c]) THEN f[2] - 1 ELSE 0
                    /\ calls[c].searched = calls[c].extracted
              /\ f[1] = "next" =>
                    /\ calls[c].extracted = f[2]
                    /\ calls[c].searched = f[2] - 1

\* the scrape fetch of page 3 is in flight, two pages extracted and searched
C11_Witness ==
    \E c \in DOMAIN calls :
        /\ calls[c].pending = {<<"scrape", 3>>}
        /\ calls[c].extracted = 2
        /\ calls[c].searched = 2
        /\ calls[c].fetches = 5

\* the call as runOnce was given it
AsCalled(call) == NewCall(call.url, call.maxPages, call.usePagination)

\* the locals and the history of a call whose scraping has returned
Crawled(call) == [call EXCEPT !.pc = "returned", !.result = NotReturned]

\* C12: under every interleaving of two calls, a step changes the locals of
\* one call only, and what the scraping of each call returns is what the call
\* returns when it runs alone against the responses it was given.
C12_CrawlsIndependent ==
    /\ [](\A c \in DOMAIN calls :
            calls[c].pc \in {"saving", "done"} =>
                Crawled(calls[c])
                    = Crawled(Replay(AsCalled(calls[c]), web.given[c])))
    /\ [][\A c, d \in DOMAIN calls :
            (c # d /\ calls'[c] # calls[c]) => calls'[d] = calls[d]]_vars

\* both crawls are in their loops, on different pages, with different seen
\* URLs, and the second one started first
C12_Witness ==
    /\ DOMAIN calls = {"run1", "run2"}
    /\ calls["run1"].pc = "findNextPage" /\ calls["run1"].pageCount = 1
    /\ calls["run2"].pc = "scrapePage" /\ calls["run2"].pageCount = 2
    /\ calls["run1"].seenUrls # {}
    /\ calls["run2"].seenUrls # {}
    /\ calls["run1"].seenUrls # calls["run2"].seenUrls

\* the articles a file held before an append: none when there was no file
\* or no JSON in it
Persisted(file) == IF file.exists /\ file.parses THEN file.articles ELSE <<>>

\* C13: after appendToJson the file holds the articles it held before, in
\* their order, then the incoming articles whose url it did not hold, in
\* their order; totalArticles is the length of the list; and the list has
\* no url twice when neither the file nor the batch had.
C13_AppendMergesByUrl ==
    (store.used /\ store.appended) =>
        LET before == Persisted(store.prior)
            after == store.file.articles
        IN  /\ store.file.exists /\ store.file.parses
            /\ Len(after) >= Len(before)
            /\ SubSeq(after, 1, Len(before)) = before
            /\ SubSeq(after, Len(before) + 1, Len(after))
                  = SelectSeq(store.incoming,
                              LAMBDA a : a.url \notin Urls(before))
            /\ store.file.totalArticles = Len(after)
            /\ (NoDuplicateUrls(before) /\ NoDuplicateUrls(store.incoming))
                  => NoDuplicateUrls(after)

\* an append to a file of one article, of a batch holding that article's url
\* under another title and a new url: only the new one is appended
C13_Witness ==
    /\ store.used /\ store.appended
    /\ Len(Persisted(store.prior)) = 1
    /\ Len(store.incoming) = 2
    /\ store.incoming[1].url = store.prior.articles[1].url
    /\ store.incoming[1].title # store.prior.articles[1].title
    /\ Len(store.file.articles) = 2
    /\ store.file.articles[2] = store.incoming[2]

\* the runs of a job's task
RunsOf(jobId, runs) == {c \in DOMAIN runs : runs[c].task /\ runs[c].job = jobId}

\* C14: a URL that is empty, does not parse, or is not http(s) is rejected
\* before any scraping: scheduleScraping throws and registers nothing, and a
\* runOnce call given such a URL issues no fetch and reports no success.
C14_InvalidUrlRejected ==
    /\ sched.last.op = "scheduleScraping" /\ UrlRejected(sched.last.url)
         => sched.last.threw
    /\ \A id \in sched.scheduledJobs : ~UrlRejected(sched.created[id].url)
    /\ \A c \in DOMAIN calls :
         UrlRejected(calls[c].url)
           => /\ calls[c].fetches = 0
              /\ calls[c].pc = "done" => calls[c].result = Failure

\* runOnce has returned success for <<"m", "a", "i", "l", "t", "o", ":", "x">> after one fetch of it
C14_Witness ==
    \E c \in DOMAIN calls :
      /\ ~calls[c].task
      /\ calls[c].url = H_Mail
      /\ calls[c].pc = "done"
      /\ calls[c].fetches = 1
      /\ calls[c].result = Success(<<>>)

\* C15: once cancelJob has returned true for a job, the job is not in the
\* registry, its timer is cleared, and no run of its task starts any more;
\* cancelJob of an id the registry does not hold returns false and changes
\* neither the registry nor the timers.
C15_CancelStopsJob ==
    /\ [](\A id \in sched.cancelled :
            id \notin sched.scheduledJobs /\ id \notin sched.timers)
    /\ [][/\ \A id \in sched.cancelled :
               RunsOf(id, calls') = RunsOf(id, calls)
          /\ (sched'.last # sched.last /\ sched'.last.op = "cancelJob")
               => IF sched'.last.jobId \in sched.scheduledJobs
                  THEN /\ sched'.last.returned
                       /\ sched'.scheduledJobs
                            = sched.scheduledJobs \ {sched'.last.jobId}
                       /\ sched'.timers = sched.timers \ {sched'.last.jobId}
                  ELSE /\ ~sched'.last.returned
                       /\ sched'.scheduledJobs = sched.scheduledJobs
                       /\ sched'.timers = sched.timers]_vars

\* a job was cancelled after its first run, while another run could still
\* have started, and a second cancelJob of its id came back false
C15_Witness ==
    /\ sched.cancelled # {}
    /\ \E id \in sched.cancelled : RunsOf(id, calls) # {}
    /\ Len(calls) < MaxRuns
    /\ sched.last.op = "cancelJob"
    /\ sched.last.jobId \in sched.cancelled
    /\ ~sched.last.returned

\* the selectors of strategy 1 whose first match has an href that is neither
\* empty nor a javascript: link and that resolves against the current URL
ExplicitNext ==
    {i \in 1..Len(pgIn.doc.next) :
        /\ UsableHref(FirstHref(pgIn.doc.next[i]))
        /\ ResolveUrl(FirstHref(pgIn.doc.next[i]), pgIn.currentUrl).ok}

\* the numbered links above the current page number
LaterLinks ==
    {i \in 1..Len(NumberedLinks) :
        /\ ~NumberedLinks[i].page.nan
        /\ NumberedLinks[i].page.n > extractPageNumber(pgIn.currentUrl)}

\* C16: findNextPage returns the href of the first explicit next link that
\* is usable, whatever numbered links there are; without one, the url of a
\* numbered link above the current page; and a synthesized URL only when
\* there is neither.
C16_FirstStrategyWins ==
    (pgIn.kind = "find" /\ pgOut.done) =>
        IF ExplicitNext # {}
        THEN pgOut.next
               = ResolveUrl(FirstHref(pgIn.doc.next[MinOf(ExplicitNext)]),
                            pgIn.currentUrl).href
        ELSE IF LaterLinks # {}
        THEN \E i \in LaterLinks : pgOut.next = NumberedLinks[i].url
        ELSE pgOut.next = SynthesizedNext(pgIn.currentUrl)

\* on page 1 the explicit next link leads to page 2 while the only numbered
\* link leads to page 3: page 2 is returned
C16_Witness ==
    /\ pgIn.kind = "find" /\ pgOut.done
    /\ pgIn.currentUrl = U_News
    /\ pgIn.doc.next = NextLink(H_Page2)
    /\ Len(pgIn.doc.pageLinks) = 1
    /\ Trim(pgIn.doc.pageLinks[1].text) = <<"3">>
    /\ pgOut.next = U_NewsPage2

\* the number of the transformation strategy 3 selects for a current URL
SelectedPattern(currentUrl) ==
    MinOr({i \in 1..6 : UrlPatterns(currentUrl)[i] # currentUrl}, 0)

\* C17: with no explicit and no numbered link, findNextPage returns the
\* first of the six transformations that differs from the current URL, and
\* each of the six is the one selected for some current URL.
C17_EachPatternSelected ==
    /\ (pgIn.kind = "find" /\ pgOut.done /\ pgIn.doc = DocBare) =>
          /\ SelectedPattern(pgIn.currentUrl) # 0
          /\ pgOut.next
               = UrlPatterns(pgIn.currentUrl)[SelectedPattern(pgIn.currentUrl)]
    /\ \A k \in 1..6 :
          \E currentUrl \in SynthUrls : SelectedPattern(currentUrl) = k

\* for a current URL with a query and no page marker, /page/2 is appended
\* after the query: the fifth transformation, not the sixth
C17_Witness ==
    /\ pgIn.kind = "find" /\ pgOut.done
    \* "https://a.com/news?x=1"
    /\ pgIn.currentUrl = <<"h", "t", "t", "p", "s", ":", "/", "/", "a", ".", "c", "o", "m", "/", "n", "e", "w", "s", "?", "x", "=", "1">>
    \* "https://a.com/news?x=1/page/2"
    /\ pgOut.next = <<"h", "t", "t", "p", "s", ":", "/", "/", "a", ".", "c", "o", "m", "/", "n", "e", "w", "s", "?", "x", "=", "1", "/", "p", "a", "g", "e", "/", "2">>

\* C18: once the maxPages-th page has been scraped, the crawl adopts no next
\* page URL and enters no delay: the current URL stays the last page visited
\* and the call is never waiting in the inter-page delay.
C18_NoDelayAtLimit ==
    \A c \in DOMAIN calls :
        (IsMultiPage(calls[c]) /\ calls[c].pageCount = calls[c].maxPages) =>
            /\ calls[c].pc # "delay"
            /\ calls[c].currentPageUrl = calls[c].visited[calls[c].pageCount]

\* the last page allowed has been scraped, a URL that will never be visited
\* is the current one and the call waits in the delay
C18_Witness ==
    \E c \in DOMAIN calls :
        /\ IsMultiPage(calls[c])
        /\ calls[c].pageCount = calls[c].maxPages
        /\ calls[c].pc = "delay"
        /\ calls[c].fetches = 2 * calls[c].maxPages
        /\ calls[c].currentPageUrl # calls[c].visited[calls[c].pageCount]

\* C19: each visited page is fetched once, and its extraction and its
\* pagination discovery work on that one response: a call has issued no more
\* fetches than it has visited pages, and the two of a page fail or succeed
\* together.
C19_OneFetchPerPage ==
    \A c \in DOMAIN calls :
        IsMultiPage(calls[c]) =>
            /\ calls[c].fetches <= calls[c].pageCount
            /\ \A p \in 1..calls[c].searched :
                 <<"scrape", p>> \in calls[c].failed
                   <=> <<"next", p>> \in calls[c].failed

\* the scrape fetch of page 1 failed, the fetch of findNextPage for the same
\* page succeeded and led the crawl to page 2
C19_Witness ==
    \E c \in DOMAIN calls :
        /\ IsMultiPage(calls[c])
        /\ calls[c].pageCount = 2
        /\ calls[c].fetches = 3
        /\ calls[c].failed = {<<"scrape", 1>>}

\* the description candidates of a container whose trimmed text is longer
\* than MinDescription
LongCandidates(node) ==
    {k \in 1..Len(node.descs) :
        node.descs[k] # Null /\ Len(Trim(node.descs[k])) > MinDescription}

\* the first long candidate of a container, trimmed, cut and cleaned
FirstLongCandidate(node) ==
    cleanText(Substring(Trim(node.descs[MinOf(LongCandidates(node))]),
                        MaxDescription))

\* C20: the description of a record is the text of the container's first
\* candidate longer than 20 characters, cut to 500; it is empty when the
\* container has no such candidate, and never longer than 500 characters.
C20_DescriptionFirstLongCandidate ==
    exOut.parsed =>
        \A i \in 1..Len(exOut.records) :
            exOut.records[i] # NullArticle =>
                /\ Len(exOut.records[i].description) <= MaxDescription
                /\ exOut.records[i].description
                     = IF LongCandidates(exIn.doc.nodes[i]) = {} THEN <<>>
                       ELSE FirstLongCandidate(exIn.doc.nodes[i])

\* a container whose candidates are a short paragraph and a summary of
\* exactly 20 characters gave a record described by the summary
C20_Witness ==
    /\ exOut.parsed
    /\ \E i \in 1..Len(exOut.records) :
         /\ exOut.records[i] # NullArticle
         /\ exIn.doc.nodes[i].descs[1] = ShortText
         /\ LongCandidates(exIn.doc.nodes[i]) = {}
         /\ exOut.records[i].description = TextOf(MinDescription)

\* what is read of a date element: its datetime attribute, else its text
DateRead(el) ==
    IF el.datetime # Null /\ el.datetime # <<>> THEN el.datetime
    ELSE Trim(el.text)

\* the first selection of a sequence that holds an element
FirstPresent(selections) ==
    selections[MinOf({k \in 1..Len(selections) : selections[k].length > 0})]

\* C21: the date of a record is read from the first present of the time
\* element, the element with a datetime attribute and the element of a date
\* class, the attribute before the text; the author is the text of the first
\* present of the element of an author class and the rel=author element.
C21_DateAndAuthorFallBack ==
    exOut.parsed =>
        \A i \in 1..Len(exOut.records) :
            exOut.records[i] # NullArticle =>
                /\ (\E k \in 1..3 : exIn.doc.nodes[i].dates[k].length > 0)
                     => exOut.records[i].date
                          = DateRead(FirstPresent(exIn.doc.nodes[i].dates))
                /\ (\E k \in 1..2 : exIn.doc.nodes[i].authors[k].length > 0)
                     => exOut.records[i].author
                          = Trim(FirstPresent(exIn.doc.nodes[i].authors).text)

\* a container without a time element, with an element that has a datetime
\* attribute and a rel=author element, gave a record without date and author
C21_Witness ==
    /\ exOut.parsed
    /\ \E i \in 1..Len(exOut.records) :
         /\ exOut.records[i] # NullArticle
         /\ exIn.doc.nodes[i].dates[1] = NoElement
         /\ exIn.doc.nodes[i].dates[2] = Element(IsoDate, <<>>)
         \* "Bob"
         /\ exIn.doc.nodes[i].authors = <<NoElement, Element(Null, <<"B", "o", "b">>)>>
         /\ exOut.records[i].date = <<>>
         /\ exOut.records[i].author = <<>>

\* the number of segments of the path of a URL
PathSegments(url) ==
    Cardinality({i \in 1..(Len(ParseUrl(url).pathname) - 1) :
                    /\ ParseUrl(url).pathname[i] = "/"
                    /\ ParseUrl(url).pathname[i + 1] # "/"})

\* the URL matches an article pattern
HasArticlePattern(url) ==
    \/ \E pat \in articlePatterns : Includes(toLowerCase(url), pat)
    \/ HasDateSegment(toLowerCase(url))

\* the URL matches an excluded path or an excluded file extension
IsExcluded(url) ==
    \/ \E pat \in skipPatterns : Includes(toLowerCase(url), pat)
    \/ \E ext \in skipExtensions : EndsWith(toLowerCase(url), ext)

\* the document has no container, so that its links are harvested
OnlyAnchors(doc) == \A k \in 1..Len(doc.nodes) : doc.nodes[k].sel = {}

\* C22: a harvested link matches an article pattern or has a path of at
\* least 4 segments, and matches no excluded path or extension.
C22_HarvestedLooksLikeArticle ==
    (exOut.extracted /\ OnlyAnchors(exIn.doc)) =>
        \A i \in 1..Len(exOut.articles) :
            /\ ~IsExcluded(exOut.articles[i].url)
            /\ \/ HasArticlePattern(exOut.articles[i].url)
               \/ PathSegments(exOut.articles[i].url) >= 4

\* the only anchor of the document leads to /about, and it was harvested
C22_Witness ==
    /\ exOut.extracted
    /\ exIn.doc.nodes = <<BareAnchor(H_About, LinkText, <<>>)>>
    /\ Len(exOut.articles) = 1
    /\ exOut.articles[1].url = ResolveUrl(H_About, exIn.baseUrl).href

\* the position in a URL string where what follows the host begins
\* "://"
HostEnd(url) == FirstOf(url, {"/", "?"}, IndexOf(url, <<":", "/", "/">>) + 3)

\* the path of a URL string: from the first "/" after the host up to the
\* "?", and "/" when there is none
PathOf(url) ==
    IF HostEnd(url) > Len(url) \/ url[HostEnd(url)] = "?" THEN <<"/">>
    ELSE SubSeq(url, HostEnd(url), FirstOf(url, {"?"}, 1) - 1)

\* the query of a URL string, with its "?"
QueryOf(url) == SubSeq(url, FirstOf(url, {"?"}, 1), Len(url))

\* the string is a URL with a scheme and a host
\* "://"
CanParse(url) == IndexOf(url, <<":", "/", "/">>) # 0 /\ HostOf(url) # <<>>

\* a path without its first /page/<digits> and its first /p/<digits>
WithoutPageMarker(path) ==
    \* "/page/", "/p/"
    ReplaceLitDigits(ReplaceLitDigits(path, <<"/", "p", "a", "g", "e", "/">>, <<>>), <<"/", "p", "/">>, <<>>)

\* C23: a candidate that differs from the current URL and passes the host
\* check is accepted exactly when its path starts with the current path
\* without its page marker, or its path or its query contains "page"; a pair
\* with a URL that does not parse is rejected.
C23_AcceptedExactlyWhenPaginationLike ==
    (pgIn.kind = "validate" /\ pgOut.done) =>
        IF ~CanParse(pgIn.currentUrl) \/ ~CanParse(pgIn.candidate)
        THEN ~pgOut.valid
        ELSE (/\ pgIn.candidate # pgIn.currentUrl
              /\ ~pgIn.sameDomainOnly
                   \/ HostOf(pgIn.candidate) = HostOf(pgIn.currentUrl)) =>
                (pgOut.valid <=>
                    \/ StartsWith(PathOf(pgIn.candidate),
                                  WithoutPageMarker(PathOf(pgIn.currentUrl)))
                    \* "page"
                    \/ Includes(PathOf(pgIn.candidate), <<"p", "a", "g", "e">>)
                    \* "page"
                    \/ Includes(QueryOf(pgIn.candidate), <<"p", "a", "g", "e">>))

\* a candidate on another path whose query alone names a page is accepted
C23_Witness ==
    /\ pgIn.kind = "validate" /\ pgOut.done
    /\ pgIn.currentUrl = U_News
    /\ pgIn.candidate = U_ListQ3
    /\ pgOut.valid

\* C24: a crawl with sameDomainOnly set visits only pages on the host of its
\* starting URL, never the same URL twice in a row, and its current page URL
\* changes only to a candidate isValidPagination accepts against the URL it
\* replaces.
C24_StaysOnHostAndMoves ==
    /\ [](\A c \in DOMAIN calls :
            (IsMultiPage(calls[c]) /\ calls[c].opts.sameDomainOnly) =>
                /\ \A k \in 1..Len(calls[c].visited) :
                      HostOf(calls[c].visited[k]) = HostOf(calls[c].url)
                /\ \A k \in 1..(Len(calls[c].visited) - 1) :
                      calls[c].visited[k] # calls[c].visited[k + 1])
    /\ [][\A c \in DOMAIN calls :
            (/\ calls[c].pc # "start"
             /\ calls'[c].currentPageUrl # calls[c].currentPageUrl) =>
                isValidPagination(calls[c].currentPageUrl,
                                  calls'[c].currentPageUrl, calls[c].opts)]_vars

\* two pages were visited, and the candidate found on the second was rejected
C24_Witness ==
    \E c \in DOMAIN calls :
        /\ IsMultiPage(calls[c])
        /\ calls[c].opts.sameDomainOnly
        /\ Len(calls[c].visited) = 2
        /\ calls[c].endedBy = "rejected"

C26_OverlappingAppendsKeepAll ==
    (\A a \in Appends : store.appends[a].pc = "done") =>
        /\ \A a \in Appends :
              Urls(store.appends[a].articles) \subseteq Urls(store.file.articles)
        /\ (\A a \in Appends : NoDuplicateUrls(store.appends[a].articles))
              => NoDuplicateUrls(store.file.articles)

\* both calls read the file before either wrote it, and the file holds the
\* batch of one of them only
C26_Witness ==
    /\ \A a \in Appends : store.appends[a].pc = "done"
    /\ \A a \in Appends : Len(store.appends[a].existingData.articles) = 1
    /\ Len(store.file.articles) = 1
    /\ \E a \in Appends :
         ~(Urls(store.appends[a].articles) \subseteq Urls(store.file.articles))

====
